---------------------------- MODULE Spec2Model ----------------------------
(***************************************************************************)
(* A model of the icon exporters of this repository.                       *)
(*                                                                         *)
(* Text is modelled as a sequence of one-character strings, so that the    *)
(* string operations of the source (replace, sanitize, path.join) are      *)
(* computed character by character as the code computes them.              *)
(***************************************************************************)
EXTENDS Integers, Sequences, FiniteSets, TLC

---------------------------------------------------------------------------
(* The state.  Each exporter of the repository has its own variables; a    *)
(* specification runs one of them and leaves the others idle.              *)

\* IconExporter.exportWithVariants of src/unnamed/part_000
VARIABLES
    config,         \* this.config, the merged and validated configuration
    variants,       \* { sizes, colors } after the defaults of line 556
    pc,             \* where the run is: idle, collection, icon, render,
                    \* format, return, done or raised
    ci,             \* index into config.collections (loop of line 565)
    ii,             \* index into icons (loop of line 534)
    si,             \* index into sizes (loop of line 540)
    coli,           \* index into colors (loop of line 541)
    fi,             \* index into config.formats (loop of line 496)
    icons,          \* getIconsToProcess(data) of the collection in progress
    svgContent,     \* processIcon's svgContent: "none" or "rendered"
    successCount,   \* processIcon's successCount
    errorCount,     \* processIcon's errorCount
    processed,      \* processCollectionWithVariants' processed
    errors,         \* processCollectionWithVariants' errors
    totalProcessed, \* exportWithVariants' totalProcessed
    totalErrors,    \* exportWithVariants' totalErrors
    result,         \* what exportWithVariants returned, once it has
    io,             \* how often the run has loaded a collection and
                    \* generated an SVG
    call,           \* how often the current processIcon call has created a
                    \* folder, converted and written
    attempted,      \* the formats the current processIcon call has attempted
    lastOutcome     \* what the last step met: ok or which failure

runVars == <<config, variants, pc, ci, ii, si, coli, fi, icons, svgContent,
             successCount, errorCount, processed, errors, totalProcessed,
             totalErrors, result, io, call, attempted,
             lastOutcome>>

\* FileHandler.generateFolderPath of src/unnamed/part_000, called on its own
VARIABLES
    fpConfig,      \* the config argument
    fpCollection,  \* the collection argument
    fpOptions,     \* the options argument
    fpResult,      \* the returned folder path
    fpPc           \* "input" before the call, "returned" after it

pathVars == <<fpConfig, fpCollection, fpOptions, fpResult, fpPc>>

\* createExporter of src/unnamed/part_000
VARIABLES
    userConfig,   \* the config argument of createExporter
    ctorPc,       \* "input", then "constructed" or "threw"
    exporter      \* the exporter object: whether one exists, and its config

ctorVars == <<userConfig, ctorPc, exporter>>

\* IconExporter of src/unnamed/part_005
VARIABLES
    p5Config,          \* this.config
    p5Sizes,           \* this.sizes
    p5SizeType,        \* this.sizeType
    p5Entry,           \* the entry point called: exportIcons or exportWithVariants
    p5Variants,        \* { sizes, colors } after the defaults of lines 447-451
    p5Pc,              \* idle, collection, icon, process, done or raised
    p5Ci,              \* index into config.collections
    p5Ii,              \* index into icons
    p5Si,              \* index into sizes
    p5Coli,            \* index into colors
    p5Icons,           \* getIconsToProcess(data)
    p5Processed,       \* processCollectionWithVariants' processed
    p5Errors,          \* processCollectionWithVariants' errors
    p5TotalProcessed,  \* exportWithVariants' totalProcessed
    p5TotalErrors,     \* exportWithVariants' totalErrors
    p5Attempts,        \* the (size, color) pairs processIcon was called with
                       \* for the icon in progress
    p5Result           \* what exportWithVariants returned

p5Vars == <<p5Config, p5Sizes, p5SizeType, p5Entry, p5Variants, p5Pc, p5Ci,
            p5Ii, p5Si, p5Coli, p5Icons, p5Processed, p5Errors,
            p5TotalProcessed, p5TotalErrors, p5Attempts, p5Result>>

\* FileHandler.sanitizeString and applyCase of src/unnamed/part_000, called
\* on their own
VARIABLES
    txInput,      \* the text the functions are called with
    txEnabled,    \* config.fileNaming.sanitize of the sanitizeString calls
    txSanitized,  \* sanitizeString(txInput, config)
    txAgain,      \* sanitizeString(txSanitized, config)
    txCase,       \* the caseType argument of applyCase
    txCased,      \* applyCase(txInput, txCase)
    txPc          \* "input", "sanitized", "resanitized" or "cased"

textVars == <<txInput, txEnabled, txSanitized, txAgain, txCase, txCased, txPc>>

\* FileHandler.generateFileName and generateFolderPath of
\* src/unnamed/part_000, called with one variant
VARIABLES
    fnConfig,      \* the config argument
    fnCollection,  \* the collection argument
    fnIcon,        \* the iconName argument
    fnOptions,     \* the options argument { size, color, format }
    fnFile,        \* the returned file name
    fnFolder,      \* the returned folder path
    fnPc           \* "input", "named" or "placed"

nameVars == <<fnConfig, fnCollection, fnIcon, fnOptions, fnFile, fnFolder, fnPc>>

\* FileHandler.generateFileName of src/unnamed/part_006, called repeatedly
VARIABLES
    p6Config,      \* the config argument
    p6Collection,  \* the collection argument
    p6Icon,        \* the iconName argument
    p6Options,     \* the options argument
    p6Now,         \* what Date.now() returns, in milliseconds after the start
    p6Names        \* the file names the calls so far returned, in call order

p6Vars == <<p6Config, p6Collection, p6Icon, p6Options, p6Now, p6Names>>

\* SvgProcessor.generateSvg of src/unnamed/part_000, called on its own
VARIABLES
    svBody,    \* renderData.body: the body the icon provider returns
    svFound,   \* whether getIconData finds the icon
    svColor,   \* the color argument ('' stands for every falsy value)
    svSize,    \* the size argument
    svResult,  \* the returned SVG text
    svPc       \* "input", "returned" or "threw"

svgVars == <<svBody, svFound, svColor, svSize, svResult, svPc>>

\* SvgProcessor.applyColorToSvgBody of src/export-icons-31.js
VARIABLES
    acBody,    \* the svgBody argument
    acColor,   \* the color argument
    acResult,  \* the returned body
    acPc       \* "input" or "returned"

colorVars == <<acBody, acColor, acResult, acPc>>

\* IconExporter.processCollectionWithVariants of src/unnamed/part_000, with
\* the files it writes
VARIABLES
    fsConfig,        \* this.config
    fsVariants,      \* the sizes and colors arguments
    fsIcons,         \* the icons argument
    fsPc,            \* "icon", "render", "format", "return" or "done"
    fsIi,            \* index into icons (loop of line 534)
    fsSi,            \* index into sizes (loop of line 540)
    fsColi,          \* index into colors (loop of line 541)
    fsFi,            \* index into config.formats (loop of line 496)
    fsSvgContent,    \* processIcon's svgContent
    fsRenders,       \* how often generateSvg has run
    fsSuccessCount,  \* processIcon's successCount
    fsErrorCount,    \* processIcon's errorCount
    fsProcessed,     \* processCollectionWithVariants' processed
    fsErrors,        \* processCollectionWithVariants' errors
    fsFiles,         \* the file system: the content of each path written
    fsLog,           \* the writeFile calls so far, in call order
    fsFailures       \* how many steps have failed so far

fsVars == <<fsConfig, fsVariants, fsIcons, fsPc, fsIi, fsSi, fsColi, fsFi,
            fsSvgContent, fsRenders, fsSuccessCount, fsErrorCount,
            fsProcessed, fsErrors, fsFiles, fsLog, fsFailures>>

\* IconExporter.exportAll of src/icon-exporter-complete.js
VARIABLES
    eaConfig,        \* this.config
    eaLoadable,      \* the collections loadCollection can load
    eaPc,            \* "idle", "collection", "batch", "await", "resolved"
                     \* or "rejected"
    eaCi,            \* index into config.collections (loop of line 670)
    eaIcons,         \* processCollection's icons
    eaI,             \* processCollection's i, counted from 1
    eaTask,          \* the exportIcon call of each icon of the collection:
                     \* its status, the variant it is at, its iconStats
    eaStats,         \* this.stats
    eaSkipped,       \* how many variants were skipped as existing
    eaSummaries,     \* how often printSummary has run
    eaSummaryFile,   \* the writeFile of export-summary.json: "none",
                     \* "inflight", "written" or "failed"
    eaFailures       \* how many steps have failed so far

completeVars == <<eaConfig, eaLoadable, eaPc, eaCi, eaIcons, eaI, eaTask,
                  eaStats, eaSkipped, eaSummaries, eaSummaryFile, eaFailures>>

\* exportIcons of the first exporter of src/export-icons-3.js, for one
\* collection
VARIABLES
    e3SkipExisting,  \* CONFIG.skipExisting
    e3Pc,            \* "map", "batch" or "done"
    e3I,             \* the i of the batch loop, counted from 1
    e3Task,          \* the processIcon call of each icon to process:
                     \* "pending", "started" or "finished"
    e3Stats,         \* the ExportStats of the run
    e3Failures       \* how many processIcon calls have failed so far

e3Vars == <<e3SkipExisting, e3Pc, e3I, e3Task, e3Stats, e3Failures>>

\* IconExporter.ExportWithVariants of
\* src/go-iconexporter/iconexporter/iconexporter.go
VARIABLES
    goConfig,          \* e.config
    goSizes,           \* the sizes argument, after the default of line 454
    goColors,          \* the colors argument, after the default of line 457
    goLoadable,        \* the collections loadCollectionData can load
    goPresent,         \* the icons of a loaded collection's data
    goFailingSizes,    \* the positions in sizes of the sizes whose folder
                       \* cannot be created
    goPc,              \* "start", "collection", "icon", "results",
                       \* "errors", "returned" or "failed"
    goCi,              \* index into e.config.Collections
    goIi,              \* index into icons
    goSpawned,         \* the goroutines that have not run processVariant:
                       \* how many will fail, how many will not
    goErrBlocked,      \* how many goroutines are blocked on errorsChan <- err
    goResBlocked,      \* the goroutines blocked on resultsChan <- success,
                       \* counted by the value they send
    goErrorsChan,      \* how many errors errorsChan holds
    goResultsChan,     \* the values resultsChan holds, counted by value
    goClosed,          \* whether the channels have been closed
    goTotalProcessed,  \* totalProcessed
    goTotalErrors,     \* totalErrors
    goSaveFailures     \* how many saveImage calls have failed so far

goVars == <<goConfig, goSizes, goColors, goLoadable, goPresent,
            goFailingSizes, goPc, goCi, goIi, goSpawned, goErrBlocked,
            goResBlocked, goErrorsChan, goResultsChan, goClosed,
            goTotalProcessed, goTotalErrors, goSaveFailures>>

\* IconExporter.exportIcons of the sharp-based exporter of
\* src/export-icons-31.js (lines 377-813)
VARIABLES
    shConfig,          \* this.config
    shVariants,        \* the variants argument: sizes and colors
    shLoadable,        \* the collections _loadCollectionData can load
    shPc,              \* "start", "collection", "returned" or "threw"
    shCi,              \* index into config.collections (loop of line 680)
    shTotalProcessed,  \* totalProcessed
    shTotalErrors,     \* totalErrors
    shSummaries,       \* the calls of _printExportSummary so far: after
                       \* which collection, and with what arguments
    shFailures         \* how many files have failed so far

sharpVars == <<shConfig, shVariants, shLoadable, shPc, shCi,
               shTotalProcessed, shTotalErrors, shSummaries, shFailures>>

\* IconExporter.exportIcons of the first exporter of src/export-icons-31.js
\* (lines 160-286), for one collection
VARIABLES
    siConfig,     \* this.config
    siIcons,      \* the icons of exportIcons
    siPc,         \* "icon", "format", "summary" or "done"
    siIi,         \* index into icons (loop of line 187)
    siFi,         \* index into config.formats (loop of line 220)
    siAttempted,  \* the formats exportFormat was called with for the icon
                  \* in progress
    siStats,      \* this.stats
    siLog,        \* for each exportSingleIcon call that has returned: the
                  \* formats attempted, how many of them failed, and the
                  \* errors it counted
    siFailures    \* how many steps have failed so far

singleVars == <<siConfig, siIcons, siPc, siIi, siFi, siAttempted, siStats,
                siLog, siFailures>>

\* createExporter of src/unnamed/part_005, called with customSizes
VARIABLES
    csConfig,    \* the merged configuration the constructor validates
    csPc,        \* "input", then "constructed" or "threw"
    csSizeType   \* this.sizeType of the exporter constructed

customVars == <<csConfig, csPc, csSizeType>>

\* IconExporter.processCollectionWithVariants of
\* src/export-icons-10-gemini.js, for two icons of a collection
VARIABLES
    gmConfig,     \* this.config
    gmIcons,      \* the icons argument
    gmPc,         \* "icon" or "done"
    gmIi,         \* index into icons (loop of line 430)
    gmProcessed,  \* processed
    gmPaths,      \* the path of the file each processIcon call has written
    gmFiles       \* the files on disk

geminiVars == <<gmConfig, gmIcons, gmPc, gmIi, gmProcessed, gmPaths, gmFiles>>

\* The exporters modelled before those of this part of the module.
earlierVars == <<runVars, pathVars, ctorVars, p5Vars, textVars, nameVars,
                 p6Vars, svgVars, colorVars, fsVars>>

\* The exporters modelled after them.
lastVars == <<completeVars, e3Vars, goVars, sharpVars, singleVars,
             customVars, geminiVars>>

vars == <<earlierVars, lastVars>>

\* What the steps of one exporter leave alone: the state of the others.
notRunVars   == <<pathVars, ctorVars, p5Vars, textVars, nameVars, p6Vars,
                  svgVars, colorVars, fsVars,
                  lastVars>>
notPathVars  == <<runVars, ctorVars, p5Vars, textVars, nameVars, p6Vars,
                  svgVars, colorVars, fsVars,
                  lastVars>>
notCtorVars  == <<runVars, pathVars, p5Vars, textVars, nameVars, p6Vars,
                  svgVars, colorVars, fsVars,
                  lastVars>>
notP5Vars    == <<runVars, pathVars, ctorVars, textVars, nameVars, p6Vars,
                  svgVars, colorVars, fsVars,
                  lastVars>>
notTextVars  == <<runVars, pathVars, ctorVars, p5Vars, nameVars, p6Vars,
                  svgVars, colorVars, fsVars,
                  lastVars>>
notNameVars  == <<runVars, pathVars, ctorVars, p5Vars, textVars, p6Vars,
                  svgVars, colorVars, fsVars,
                  lastVars>>
notP6Vars    == <<runVars, pathVars, ctorVars, p5Vars, textVars, nameVars,
                  svgVars, colorVars, fsVars,
                  lastVars>>
notSvgVars   == <<runVars, pathVars, ctorVars, p5Vars, textVars, nameVars,
                  p6Vars, colorVars, fsVars,
                  lastVars>>
notColorVars == <<runVars, pathVars, ctorVars, p5Vars, textVars, nameVars,
                  p6Vars, svgVars, fsVars,
                  lastVars>>
notFsVars    == <<runVars, pathVars, ctorVars, p5Vars, textVars, nameVars,
                  p6Vars, svgVars, colorVars,
                  lastVars>>
notCompleteVars == <<earlierVars, e3Vars, goVars, sharpVars, singleVars,
                    customVars, geminiVars>>
notE3Vars       == <<earlierVars, completeVars, goVars, sharpVars,
                    singleVars, customVars, geminiVars>>
notGoVars       == <<earlierVars, completeVars, e3Vars, sharpVars,
                    singleVars, customVars, geminiVars>>
notSharpVars    == <<earlierVars, completeVars, e3Vars, goVars, singleVars,
                    customVars, geminiVars>>
notSingleVars   == <<earlierVars, completeVars, e3Vars, goVars, sharpVars,
                    customVars, geminiVars>>
notCustomVars   == <<earlierVars, completeVars, e3Vars, goVars, sharpVars,
                    singleVars, geminiVars>>
notGeminiVars   == <<earlierVars, completeVars, e3Vars, goVars, sharpVars,
                    singleVars, customVars>>

---------------------------------------------------------------------------
(* Text helpers: the JavaScript string primitives the source relies on.    *)

\* The empty text ''.
Empty == << >>

LowerChars == {"a","b","c","d","e","f","g","h","i","j","k","l","m",
               "n","o","p","q","r","s","t","u","v","w","x","y","z"}
UpperChars == {"A","B","C","D","E","F","G","H","I","J","K","L","M",
               "N","O","P","Q","R","S","T","U","V","W","X","Y","Z"}
DigitChars == {"0","1","2","3","4","5","6","7","8","9"}

\* \w of a JavaScript regular expression.
WordChars == LowerChars \cup UpperChars \cup DigitChars \cup {"_"}

\* \s of a JavaScript regular expression (the members that occur in names).
SpaceChars == {" "}

\* INVALID_FILENAME_CHARS = /[<>:"/\\|?*]/g
INVALID_FILENAME_CHARS == {"<", ">", ":", "\"", "/", "\\", "|", "?", "*"}

RECURSIVE Concat(_)
\* The concatenation of a sequence of texts.
Concat(parts) ==
    IF parts = << >> THEN Empty ELSE Head(parts) \o Concat(Tail(parts))

\* Does text s hold pat at position i ?
MatchesAt(s, pat, i) ==
    /\ i >= 1
    /\ i + Len(pat) - 1 <= Len(s)
    /\ SubSeq(s, i, i + Len(pat) - 1) = pat

\* String.prototype.indexOf, 1-based; 0 when pat does not occur.
IndexOf(s, pat) ==
    IF \E i \in 1..(Len(s) + 1) : MatchesAt(s, pat, i)
    THEN CHOOSE i \in 1..(Len(s) + 1) :
            /\ MatchesAt(s, pat, i)
            /\ \A j \in 1..(i - 1) : ~MatchesAt(s, pat, j)
    ELSE 0

\* String.prototype.includes
Contains(s, pat) == \E i \in 1..Len(s) : MatchesAt(s, pat, i)

\* String.prototype.replace(pat, rep) with a string pattern: only the first
\* occurrence is replaced.  (rep holds no '$', so it is inserted verbatim.)
ReplaceFirst(s, pat, rep) ==
    LET i == IndexOf(s, pat) IN
    IF i = 0 THEN s
    ELSE SubSeq(s, 1, i - 1) \o rep \o SubSeq(s, i + Len(pat), Len(s))

\* replace(/[set]/g, ''): every character of the set is removed.
RemoveChars(s, set) == SelectSeq(s, LAMBDA c : c \notin set)

\* replace(/[^set]/g, ''): every character outside the set is removed.
KeepChars(s, set) == SelectSeq(s, LAMBDA c : c \in set)

RECURSIVE CollapseRuns(_, _, _)
\* replace(/[set]+/g, rep): every maximal run of characters of the set
\* becomes one rep.
CollapseRuns(s, set, rep) ==
    IF s = << >> THEN << >>
    ELSE IF Head(s) \in set
         THEN IF Len(s) >= 2 /\ s[2] \in set
              THEN CollapseRuns(Tail(s), set, rep)
              ELSE rep \o CollapseRuns(Tail(s), set, rep)
         ELSE <<Head(s)>> \o CollapseRuns(Tail(s), set, rep)

RECURSIVE DropLeading(_, _)
DropLeading(s, set) ==
    IF s # << >> /\ Head(s) \in set THEN DropLeading(Tail(s), set) ELSE s

RECURSIVE DropTrailing(_, _)
DropTrailing(s, set) ==
    IF s # << >> /\ s[Len(s)] \in set
    THEN DropTrailing(SubSeq(s, 1, Len(s) - 1), set)
    ELSE s

\* replace(LEADING_TRAILING_HYPHENS, '') with /^-+|-+$/g
TrimHyphens(s) == DropTrailing(DropLeading(s, {"-"}), {"-"})

DigitOf(d) ==
    CASE d = 0 -> "0" [] d = 1 -> "1" [] d = 2 -> "2" [] d = 3 -> "3"
      [] d = 4 -> "4" [] d = 5 -> "5" [] d = 6 -> "6" [] d = 7 -> "7"
      [] d = 8 -> "8" [] d = 9 -> "9"

RECURSIVE NumToString(_)
\* Number.prototype.toString() of a non-negative integer: its decimal digits.
NumToString(n) ==
    IF n < 10 THEN <<DigitOf(n)>>
    ELSE NumToString(n \div 10) \o <<DigitOf(n % 10)>>

RECURSIVE SplitOn(_, _)
\* String.prototype.split(sep) for a one-character separator.
SplitOn(s, sep) ==
    LET i == IndexOf(s, <<sep>>) IN
    IF i = 0 THEN <<s>>
    ELSE <<SubSeq(s, 1, i - 1)>> \o SplitOn(SubSeq(s, i + 1, Len(s)), sep)

RECURSIVE JoinWith(_, _)
\* Array.prototype.join(sep).
JoinWith(parts, sep) ==
    IF parts = << >> THEN Empty
    ELSE IF Len(parts) = 1 THEN parts[1]
    ELSE parts[1] \o sep \o JoinWith(Tail(parts), sep)

---------------------------------------------------------------------------
(* path.join of node:path (posix), as called by the exporters.             *)

DotSeg    == <<".">>
DotDotSeg == <<".", ".">>

RECURSIVE NormalizeSegs(_, _, _)
\* normalizeString: '' and '.' segments vanish, '..' removes the segment
\* before it (or stays, above the start of a relative path).
NormalizeSegs(segs, acc, allowAboveRoot) ==
    IF segs = << >> THEN acc
    ELSE LET seg == Head(segs) IN
         IF seg = Empty \/ seg = DotSeg
         THEN NormalizeSegs(Tail(segs), acc, allowAboveRoot)
         ELSE IF seg = DotDotSeg
              THEN IF acc # << >> /\ acc[Len(acc)] # DotDotSeg
                   THEN NormalizeSegs(Tail(segs), SubSeq(acc, 1, Len(acc) - 1),
                                      allowAboveRoot)
                   ELSE IF allowAboveRoot
                        THEN NormalizeSegs(Tail(segs), Append(acc, seg),
                                           allowAboveRoot)
                        ELSE NormalizeSegs(Tail(segs), acc, allowAboveRoot)
              ELSE NormalizeSegs(Tail(segs), Append(acc, seg), allowAboveRoot)

\* path.normalize
PathNormalize(p) ==
    IF p = Empty THEN DotSeg
    ELSE LET isAbsolute == p[1] = "/"
             trailingSep == p[Len(p)] = "/"
             body == JoinWith(NormalizeSegs(SplitOn(p, "/"), << >>, ~isAbsolute),
                              <<"/">>)
             body1 == IF body = Empty /\ ~isAbsolute THEN DotSeg ELSE body
             body2 == IF body1 # Empty /\ trailingSep THEN body1 \o <<"/">>
                      ELSE body1
         IN IF isAbsolute THEN <<"/">> \o body2 ELSE body2

\* path.join(a, b): the non-empty arguments joined by '/', then normalized.
PathJoin(a, b) ==
    LET joined == IF a = Empty THEN b
                  ELSE IF b = Empty THEN a
                  ELSE a \o <<"/">> \o b
    IN IF joined = Empty THEN DotSeg ELSE PathNormalize(joined)

---------------------------------------------------------------------------
(* Literal texts of src/unnamed/part_000.                                  *)

T_collection   == <<"{", "c", "o", "l", "l", "e", "c", "t", "i", "o", "n", "}">>
T_size         == <<"{", "s", "i", "z", "e", "}">>
T_color        == <<"{", "c", "o", "l", "o", "r", "}">>
T_format       == <<"{", "f", "o", "r", "m", "a", "t", "}">>
T_default      == <<"d", "e", "f", "a", "u", "l", "t">>
T_sizePrefix   == <<"s", "i", "z", "e", "-">>
T_colorPrefix  == <<"c", "o", "l", "o", "r", "-">>
T_svg          == <<"s", "v", "g">>
T_png          == <<"p", "n", "g">>
T_jpeg         == <<"j", "p", "e", "g">>
T_jpg          == <<"j", "p", "g">>
T_webp         == <<"w", "e", "b", "p">>
T_gif          == <<"g", "i", "f">>
T_currentColor == <<"c", "u", "r", "r", "e", "n", "t", "C", "o", "l", "o", "r">>
T_icons        == <<".", "/", "i", "c", "o", "n", "s">>

\* VALID_OUTPUT_FORMATS = new Set(['svg', 'png', 'jpeg', 'jpg', 'webp'])
VALID_OUTPUT_FORMATS == {T_svg, T_png, T_jpeg, T_jpg, T_webp}

\* VALID_CASE_TYPES = new Set(['camel', 'pascal', 'snake', 'kebab', 'original'])
VALID_CASE_TYPES == {"camel", "pascal", "snake", "kebab", "original"}

---------------------------------------------------------------------------
(* FileHandler of src/unnamed/part_000: sanitizeString, generateFolderPath *)

\* The same method without its last step, the trim of line 262.
SanitizeString_NoTrim(str, cfg) ==
    IF ~cfg.fileNaming.sanitize THEN str
    ELSE LET a == RemoveChars(str, INVALID_FILENAME_CHARS)
             b == CollapseRuns(a, SpaceChars, <<"-">>)
             c == KeepChars(b, WordChars \cup {"-", "."})
         IN CollapseRuns(c, {"-"}, <<"-">>)

\* FileHandler.sanitizeString(str, config)
SanitizeString(str, cfg) ==
    IF ~cfg.fileNaming.sanitize THEN str
    ELSE LET a == RemoveChars(str, INVALID_FILENAME_CHARS)
             b == CollapseRuns(a, SpaceChars, <<"-">>)
             c == KeepChars(b, WordChars \cup {"-", "."})
             d == CollapseRuns(c, {"-"}, <<"-">>)
         IN TrimHyphens(d)

\* An options bag { size, color, format }: a key that is absent (undefined)
\* has its has-flag FALSE, and the destructuring default then applies.
OptSize(cfg, options) ==
    IF options.hasSize THEN options.size ELSE cfg.defaultSize

OptColor(cfg, options) ==
    IF options.hasColor THEN options.color ELSE cfg.defaultColor

\* color || 'default'
ColorOrDefault(color) == IF color = Empty THEN T_default ELSE color

\* The four chained .replace calls of generateFolderPath (lines 293-297).
ResolveFolderPattern(cfg, collection, options) ==
    LET size  == OptSize(cfg, options)
        color == OptColor(cfg, options)
        p1 == ReplaceFirst(cfg.folderStructure.pattern, T_collection, collection)
        p2 == ReplaceFirst(p1, T_size, NumToString(size))
        p3 == ReplaceFirst(p2, T_color, ColorOrDefault(color))
    IN ReplaceFirst(p3, T_format, options.format)

\* The same method with the test of color against config.defaultColor left out.
GenerateFolderPath_AnyColor(cfg, collection, options) ==
    LET size  == OptSize(cfg, options)
        color == OptColor(cfg, options)
        full0 == PathJoin(cfg.outputDir,
                          ResolveFolderPattern(cfg, collection, options))
        full1 == IF cfg.folderStructure.groupBySize
                 THEN PathJoin(full0, T_sizePrefix \o NumToString(size))
                 ELSE full0
        full2 == IF cfg.folderStructure.groupByColor /\ color # Empty
                 THEN PathJoin(full1, T_colorPrefix \o SanitizeString(color, cfg))
                 ELSE full1
        full3 == IF cfg.folderStructure.groupByFormat /\ options.format # Empty
                 THEN PathJoin(full2, options.format)
                 ELSE full2
    IN IF ~cfg.folderStructure.enabled THEN cfg.outputDir ELSE full3

\* The same method without the early return for a disabled folder structure.
GenerateFolderPath_NoEarlyReturn(cfg, collection, options) ==
    LET size  == OptSize(cfg, options)
        color == OptColor(cfg, options)
        full0 == PathJoin(cfg.outputDir,
                          ResolveFolderPattern(cfg, collection, options))
        full1 == IF cfg.folderStructure.groupBySize
                 THEN PathJoin(full0, T_sizePrefix \o NumToString(size))
                 ELSE full0
        full2 == IF /\ cfg.folderStructure.groupByColor
                    /\ color # Empty
                    /\ color # cfg.defaultColor
                 THEN PathJoin(full1, T_colorPrefix \o SanitizeString(color, cfg))
                 ELSE full1
    IN IF cfg.folderStructure.groupByFormat /\ options.format # Empty
       THEN PathJoin(full2, options.format)
       ELSE full2

\* FileHandler.generateFolderPath(config, collection, options)
GenerateFolderPath(cfg, collection, options) ==
    LET size  == OptSize(cfg, options)
        color == OptColor(cfg, options)
        full0 == PathJoin(cfg.outputDir,
                          ResolveFolderPattern(cfg, collection, options))
        full1 == IF cfg.folderStructure.groupBySize
                 THEN PathJoin(full0, T_sizePrefix \o NumToString(size))
                 ELSE full0
        full2 == IF /\ cfg.folderStructure.groupByColor
                    /\ color # Empty
                    /\ color # cfg.defaultColor
                 THEN PathJoin(full1, T_colorPrefix \o SanitizeString(color, cfg))
                 ELSE full1
        full3 == IF cfg.folderStructure.groupByFormat /\ options.format # Empty
                 THEN PathJoin(full2, options.format)
                 ELSE full2
    IN IF ~cfg.folderStructure.enabled THEN cfg.outputDir ELSE full3

---------------------------------------------------------------------------
(* The run of IconExporter.exportWithVariants of src/unnamed/part_000.     *)


\* Bounds of the configurations a run is started with.
MaxSizes   == 2
MaxColors  == 2
MaxFormats == 2

T_mdi   == <<"m", "d", "i">>
T_fa    == <<"f", "a">>
T_home  == <<"h", "o", "m", "e">>
T_star  == <<"s", "t", "a", "r">>
T_ghost == <<"g", "h", "o", "s", "t">>
T_red   == <<"r", "e", "d">>
T_blue  == <<"b", "l", "u", "e">>
T_hex   == <<"#", "f", "0", "0">>

\* The collections the provider knows, with the keys of their data.icons.
KnownCollections == <<T_mdi, T_fa>>
IconKeys(collection) ==
    IF collection = T_mdi THEN <<T_home, T_star>> ELSE <<T_home>>

SeqRange(s) == {s[k] : k \in 1..Len(s)}
Prefixes(s, lo, hi) == {SubSeq(s, 1, n) : n \in lo..hi}

\* DEFAULT_CONFIG (lines 146-168)
DEFAULT_CONFIG ==
    [collections     |-> << >>,
     iconsToExport   |-> << >>,
     outputDir       |-> T_icons,
     defaultSize     |-> 48,
     defaultColor    |-> T_currentColor,
     formats         |-> <<T_svg>>,
     fileNaming      |-> [pattern  |-> <<"{", "c", "o", "l", "l", "e", "c", "t", "i", "o", "n", "}", "-", "{", "i", "c", "o", "n", "}">>,
                          sanitize |-> TRUE,
                          case     |-> "kebab"],
     folderStructure |-> [enabled       |-> TRUE,
                          pattern       |-> T_collection,
                          groupBySize   |-> FALSE,
                          groupByColor  |-> FALSE,
                          groupByFormat |-> TRUE]]

\* The configurations runs are checked with: every one passes validateConfig.
RunConfigs ==
    {[DEFAULT_CONFIG EXCEPT !.collections = cs, !.iconsToExport = is,
                            !.formats = fs] :
        cs \in Prefixes(KnownCollections, 1, Len(KnownCollections)),
        is \in {<< >>, <<T_home>>, <<T_home, T_ghost>>, <<T_ghost, T_star>>},
        fs \in Prefixes(<<T_svg, T_png, T_webp>>, 1, MaxFormats)
               \cup {<<T_png, T_webp>>}}

\* The variants argument of exportWithVariants: each key given or left out.
VariantArgs ==
    [hasSizes  : BOOLEAN,
     sizes     : Prefixes(<<16, 32, 64>>, 0, MaxSizes),
     hasColors : BOOLEAN,
     colors    : Prefixes(<<T_red, T_blue, T_hex>>, 0, MaxColors)]

NoIo == [loads |-> 0, renders |-> 0]
NoCall == [mkdirs |-> 0, converts |-> 0, writes |-> 0]
NoResult == [returned |-> FALSE, processed |-> 0, errors |-> 0]

RunInit ==
    /\ config \in RunConfigs
    /\ variants = [sizes |-> << >>, colors |-> << >>]
    /\ pc = "idle"
    /\ ci = 0 /\ ii = 0 /\ si = 0 /\ coli = 0 /\ fi = 0
    /\ icons = << >>
    /\ svgContent = "none"
    /\ successCount = 0 /\ errorCount = 0
    /\ processed = 0 /\ errors = 0
    /\ totalProcessed = 0 /\ totalErrors = 0
    /\ result = NoResult
    /\ io = NoIo
    /\ call = NoCall
    /\ attempted = << >>
    /\ lastOutcome = "none"


Sizes   == variants.sizes
Colors  == variants.colors
Formats == config.formats
CurrentCollection == config.collections[ci]

\* const { sizes = [defaultSize], colors = [defaultColor] } = variants (556)
ResolveVariants(cfg, v) ==
    [sizes  |-> IF v.hasSizes THEN v.sizes ELSE <<cfg.defaultSize>>,
     colors |-> IF v.hasColors THEN v.colors ELSE <<cfg.defaultColor>>]

\* IconExporter.getIconsToProcess(data)
GetIconsToProcess(cfg, collection) ==
    IF Len(cfg.iconsToExport) > 0 THEN cfg.iconsToExport
    ELSE IconKeys(collection)

\* IconExporter.validateIcon(data, iconName, collection)
ValidateIconOk(collection, iconName) ==
    iconName \in SeqRange(IconKeys(collection))

\* errors += sizes.length * colors.length * this.config.formats.length (536)
MissingIconErrors_PerFormat(cfg, v) == Len(cfg.formats)
MissingIconErrors(cfg, v) ==
    Len(v.sizes) * Len(v.colors) * Len(cfg.formats)

\* errorCount = this.config.formats.length (491)
RenderFailureErrors_One(cfg) == 1
RenderFailureErrors(cfg) == Len(cfg.formats)

\* The catch of processIcon returns the counts (489-493): where a failure
\* of generateSvg leaves the call.
AfterRenderFailure_Rethrown == "raised"
AfterRenderFailure == "return"

\* The catch of exportWithVariants rethrows (585-588): where a failure of
\* ensureOutputDir(outputDir) (560) leaves the run.
AfterRootDirFailure_Swallowed == "collection"
AfterRootDirFailure == "raised"

\* The same catch, for a failure of loadCollectionData (568).
AfterLoadFailure == "raised"

\* What one pass of the format loop can meet: ensureOutputDir, convert (for
\* a format other than svg) and writeFile can each throw.
SaveOutcomes(format) ==
    IF format = T_svg THEN {"ok", "mkdirFailed", "writeFailed"}
    ELSE {"ok", "mkdirFailed", "convertFailed", "writeFailed"}

\* exportWithVariants, lines 555-560: the defaults and the root directory.
StartExport ==
    /\ pc = "idle"
    /\ \E v \in VariantArgs, rootOk \in BOOLEAN :
          /\ variants' = ResolveVariants(config, v)
          /\ IF rootOk
             THEN /\ pc' = "collection"
                  /\ ci' = 1
                  /\ lastOutcome' = "ok"
             ELSE /\ pc' = AfterRootDirFailure
                  /\ ci' = 1
                  /\ lastOutcome' = "rootDirFailed"
    /\ UNCHANGED <<config, ii, si, coli, fi, icons, svgContent, successCount,
                   errorCount, processed, errors, totalProcessed, totalErrors,
                   result, io, call, attempted>>
    /\ UNCHANGED notRunVars

\* exportWithVariants, lines 565-569: load the next collection.
LoadCollection ==
    /\ pc = "collection"
    /\ ci <= Len(config.collections)
    /\ io' = [io EXCEPT !.loads = @ + 1]
    /\ \E loaded \in BOOLEAN :
          IF loaded
          THEN /\ icons' = GetIconsToProcess(config, CurrentCollection)
               /\ ii' = 1
               /\ pc' = "icon"
               /\ lastOutcome' = "ok"
          ELSE /\ pc' = AfterLoadFailure
               /\ lastOutcome' = "loadFailed"
               /\ UNCHANGED <<icons, ii>>
    /\ UNCHANGED <<config, variants, ci, si, coli, fi, svgContent, successCount,
                   errorCount, processed, errors, totalProcessed, totalErrors,
                   result, call, attempted>>
    /\ UNCHANGED notRunVars

\* processCollectionWithVariants, lines 534-538: the next icon is validated.
ValidateIcon ==
    /\ pc = "icon"
    /\ ii <= Len(icons)
    /\ IF ~ValidateIconOk(CurrentCollection, icons[ii])
       THEN /\ errors' = errors + MissingIconErrors(config, variants)
            /\ ii' = ii + 1
            /\ lastOutcome' = "iconMissing"
            /\ UNCHANGED <<pc, si, coli>>
       ELSE IF Len(Sizes) = 0 \/ Len(Colors) = 0
            THEN /\ ii' = ii + 1
                 /\ lastOutcome' = "ok"
                 /\ UNCHANGED <<pc, si, coli, errors>>
            ELSE /\ si' = 1
                 /\ coli' = 1
                 /\ pc' = "render"
                 /\ lastOutcome' = "ok"
                 /\ UNCHANGED <<ii, errors>>
    /\ UNCHANGED <<config, variants, ci, fi, icons, svgContent, successCount,
                   errorCount, processed, totalProcessed, totalErrors, result,
                   io, call, attempted>>
    /\ UNCHANGED notRunVars

\* processCollectionWithVariants returns (549) and exportWithVariants adds
\* its counters to the totals (575-576).
FinishCollection ==
    /\ pc = "icon"
    /\ ii > Len(icons)
    /\ totalProcessed' = totalProcessed + processed
    /\ totalErrors' = totalErrors + errors
    /\ processed' = 0
    /\ errors' = 0
    /\ icons' = << >>
    /\ ii' = 0
    /\ ci' = ci + 1
    /\ pc' = "collection"
    /\ lastOutcome' = "ok"
    /\ UNCHANGED <<config, variants, si, coli, fi, svgContent, successCount,
                   errorCount, result, io, call, attempted>>
    /\ UNCHANGED notRunVars

\* processIcon, lines 479-493: the base SVG is generated, or that throws.
GenerateSvgStep ==
    /\ pc = "render"
    /\ io' = [io EXCEPT !.renders = @ + 1]
    /\ successCount' = 0
    /\ attempted' = << >>
    /\ call' = NoCall
    /\ \E rendered \in BOOLEAN :
          IF rendered
          THEN /\ svgContent' = "rendered"
               /\ errorCount' = 0
               /\ fi' = 1
               /\ pc' = "format"
               /\ lastOutcome' = "ok"
          ELSE /\ svgContent' = "none"
               /\ errorCount' = RenderFailureErrors(config)
               /\ fi' = 0
               /\ pc' = AfterRenderFailure
               /\ lastOutcome' = "renderFailed"
    /\ UNCHANGED <<config, variants, ci, ii, si, coli, icons, processed, errors,
                   totalProcessed, totalErrors, result>>
    /\ UNCHANGED notRunVars

\* The same pass of the loop, leaving the loop at the first failure.
SaveFormat_Break ==
    /\ pc = "format"
    /\ fi <= Len(Formats)
    /\ attempted' = Append(attempted, Formats[fi])
    /\ \E outcome \in SaveOutcomes(Formats[fi]) :
          /\ call' = [call EXCEPT
                      !.mkdirs = @ + 1,
                      !.converts = IF Formats[fi] # T_svg /\ outcome # "mkdirFailed"
                                   THEN @ + 1 ELSE @,
                      !.writes = IF outcome \in {"ok", "writeFailed"}
                                 THEN @ + 1 ELSE @]
          /\ IF outcome = "ok"
             THEN /\ successCount' = successCount + 1
                  /\ UNCHANGED errorCount
             ELSE /\ errorCount' = errorCount + 1
                  /\ UNCHANGED successCount
          /\ lastOutcome' = outcome
          /\ fi' = fi + 1
          /\ pc' = IF fi = Len(Formats) \/ outcome # "ok" THEN "return" ELSE "format"
    /\ UNCHANGED <<config, variants, ci, ii, si, coli, icons, svgContent,
                   processed, errors, totalProcessed, totalErrors, result, io>>
    /\ UNCHANGED notRunVars

\* processIcon, lines 496-522: one pass of the loop over config.formats.
SaveFormat ==
    /\ pc = "format"
    /\ fi <= Len(Formats)
    /\ attempted' = Append(attempted, Formats[fi])
    /\ \E outcome \in SaveOutcomes(Formats[fi]) :
          /\ call' = [call EXCEPT
                      !.mkdirs = @ + 1,
                      !.converts = IF Formats[fi] # T_svg /\ outcome # "mkdirFailed"
                                   THEN @ + 1 ELSE @,
                      !.writes = IF outcome \in {"ok", "writeFailed"}
                                 THEN @ + 1 ELSE @]
          /\ IF outcome = "ok"
             THEN /\ successCount' = successCount + 1
                  /\ UNCHANGED errorCount
             ELSE /\ errorCount' = errorCount + 1
                  /\ UNCHANGED successCount
          /\ lastOutcome' = outcome
          /\ fi' = fi + 1
          /\ pc' = IF fi = Len(Formats) THEN "return" ELSE "format"
    /\ UNCHANGED <<config, variants, ci, ii, si, coli, icons, svgContent,
                   processed, errors, totalProcessed, totalErrors, result, io>>
    /\ UNCHANGED notRunVars

\* processIcon returns (492, 524); processCollectionWithVariants adds the
\* counts (543-544) and moves to the next color, size or icon (540-541).
ProcessIconReturn ==
    /\ pc = "return"
    /\ processed' = processed + successCount
    /\ errors' = errors + errorCount
    /\ successCount' = 0
    /\ errorCount' = 0
    /\ svgContent' = "none"
    /\ attempted' = << >>
    /\ call' = NoCall
    /\ fi' = 0
    /\ lastOutcome' = "ok"
    /\ IF coli < Len(Colors)
       THEN /\ coli' = coli + 1
            /\ pc' = "render"
            /\ UNCHANGED <<si, ii>>
       ELSE IF si < Len(Sizes)
            THEN /\ si' = si + 1
                 /\ coli' = 1
                 /\ pc' = "render"
                 /\ UNCHANGED ii
            ELSE /\ si' = 0
                 /\ coli' = 0
                 /\ ii' = ii + 1
                 /\ pc' = "icon"
    /\ UNCHANGED <<config, variants, ci, icons, totalProcessed, totalErrors,
                   result, io>>
    /\ UNCHANGED notRunVars

\* exportWithVariants, lines 582-583: the summary and the returned counters.
Summarize ==
    /\ pc = "collection"
    /\ ci > Len(config.collections)
    /\ result' = [returned |-> TRUE, processed |-> totalProcessed,
                  errors |-> totalErrors]
    /\ pc' = "done"
    /\ lastOutcome' = "ok"
    /\ UNCHANGED <<config, variants, ci, ii, si, coli, fi, icons, svgContent,
                   successCount, errorCount, processed, errors, totalProcessed,
                   totalErrors, io, call, attempted>>
    /\ UNCHANGED notRunVars



---------------------------------------------------------------------------
(* Calls of FileHandler.generateFolderPath (src/unnamed/part_000).         *)


T_out            == <<"o", "u", "t">>
T_patCollSize    == <<"{", "c", "o", "l", "l", "e", "c", "t", "i", "o", "n", "}", "/", "{", "s", "i", "z", "e", "}">>
T_patFormatColor == <<"{", "f", "o", "r", "m", "a", "t", "}", "/", "{", "c", "o", "l", "o", "r", "}">>
T_patTrailing    == <<"{", "c", "o", "l", "l", "e", "c", "t", "i", "o", "n", "}", "/">>
T_twoWords       == <<"s", "k", "y", " ", "b", "l", "u", "e">>

\* The folderStructure settings the calls are checked with.
FolderStructures ==
    [enabled       : BOOLEAN,
     pattern       : {Empty, T_collection, T_patCollSize, T_patFormatColor,
                      T_patTrailing},
     groupBySize   : BOOLEAN,
     groupByColor  : BOOLEAN,
     groupByFormat : BOOLEAN]

PathConfigs ==
    {[DEFAULT_CONFIG EXCEPT !.outputDir = od, !.defaultColor = dc,
                            !.fileNaming.sanitize = sn,
                            !.folderStructure = fst] :
        od \in {T_icons, T_out},
        dc \in {T_currentColor, T_red},
        sn \in BOOLEAN,
        fst \in FolderStructures}

\* The options bags: size and color given or left out, format as processIcon
\* passes it (an entry of config.formats).
PathOptions ==
    {[hasSize |-> FALSE, size |-> 0, hasColor |-> hc, color |-> c, format |-> f] :
        hc \in {FALSE}, c \in {Empty}, f \in {T_svg, T_png, T_jpg}}
    \cup
    {[hasSize |-> TRUE, size |-> sz, hasColor |-> TRUE, color |-> c, format |-> f] :
        sz \in {16, 128}, c \in {Empty, T_red, T_hex, T_twoWords},
        f \in {T_svg, T_png, T_jpg}}

PathIdle ==
    /\ fpConfig = DEFAULT_CONFIG
    /\ fpCollection = Empty
    /\ fpOptions = [hasSize |-> FALSE, size |-> 0, hasColor |-> FALSE,
                    color |-> Empty, format |-> T_svg]
    /\ fpResult = Empty
    /\ fpPc = "idle"

PathInit ==
    /\ fpConfig \in PathConfigs
    /\ fpCollection \in {T_mdi, T_fa}
    /\ fpOptions \in PathOptions
    /\ fpResult = Empty
    /\ fpPc = "input"

\* One call of generateFolderPath.
CallGenerateFolderPath ==
    /\ fpPc = "input"
    /\ fpResult' = GenerateFolderPath(fpConfig, fpCollection, fpOptions)
    /\ fpPc' = "returned"
    /\ UNCHANGED <<fpConfig, fpCollection, fpOptions>>
    /\ UNCHANGED notPathVars

RunIdle ==
    /\ config = DEFAULT_CONFIG
    /\ variants = [sizes |-> << >>, colors |-> << >>]
    /\ pc = "off"
    /\ ci = 0 /\ ii = 0 /\ si = 0 /\ coli = 0 /\ fi = 0
    /\ icons = << >>
    /\ svgContent = "none"
    /\ successCount = 0 /\ errorCount = 0
    /\ processed = 0 /\ errors = 0
    /\ totalProcessed = 0 /\ totalErrors = 0
    /\ result = NoResult
    /\ io = NoIo
    /\ call = NoCall
    /\ attempted = << >>
    /\ lastOutcome = "none"

---------------------------------------------------------------------------
(* createExporter / the IconExporter constructor of src/unnamed/part_000.  *)


NoExporter == [exists |-> FALSE, config |-> DEFAULT_CONFIG]

\* The user configurations: each key given or left out.  A key left out keeps
\* the value of DEFAULT_CONFIG in its field.
UserConfigs ==
    {[hasCollections |-> hc, collections |-> cs, hasFormats |-> hf,
      formats |-> fs, hasCase |-> hk, case |-> k, hasDefaultSize |-> hs,
      defaultSize |-> sz] :
        hc \in {TRUE}, cs \in {<< >>, <<T_mdi>>, <<T_mdi, T_fa>>},
        hf \in {TRUE}, fs \in {<< >>, <<T_svg>>, <<T_svg, T_png>>, <<T_jpg>>,
                               <<T_gif>>, <<T_svg, T_gif>>},
        hk \in {TRUE}, k \in VALID_CASE_TYPES \cup {"upper"},
        hs \in {TRUE}, sz \in {48, 0, -16}}
    \cup
    {[hasCollections |-> hc, collections |-> DEFAULT_CONFIG.collections,
      hasFormats |-> hf, formats |-> DEFAULT_CONFIG.formats,
      hasCase |-> hk, case |-> DEFAULT_CONFIG.fileNaming.case,
      hasDefaultSize |-> hs, defaultSize |-> DEFAULT_CONFIG.defaultSize] :
        hc \in BOOLEAN, hf \in BOOLEAN, hk \in BOOLEAN, hs \in BOOLEAN}

\* IconExporter.mergeConfig(DEFAULT_CONFIG, userConfig)
MergeConfig(defaultConfig, user) ==
    [defaultConfig EXCEPT
        !.collections = IF user.hasCollections THEN user.collections ELSE @,
        !.formats = IF user.hasFormats THEN user.formats ELSE @,
        !.defaultSize = IF user.hasDefaultSize THEN user.defaultSize ELSE @,
        !.fileNaming.case = IF user.hasCase THEN user.case ELSE @]

\* IconExporter.validateConfig(): TRUE when it returns, FALSE when it throws.
ValidateConfig(cfg) ==
    /\ Len(cfg.collections) # 0
    /\ Len(cfg.formats) # 0
    /\ \A k \in 1..Len(cfg.formats) : cfg.formats[k] \in VALID_OUTPUT_FORMATS

CtorIdle ==
    /\ userConfig = [hasCollections |-> FALSE, collections |-> << >>,
                     hasFormats |-> FALSE, formats |-> << >>,
                     hasCase |-> FALSE, case |-> "kebab",
                     hasDefaultSize |-> FALSE, defaultSize |-> 0]
    /\ ctorPc = "idle"
    /\ exporter = NoExporter

CtorInit ==
    /\ userConfig \in UserConfigs
    /\ ctorPc = "input"
    /\ exporter = NoExporter

\* createExporter(config): new IconExporter(config) (lines 411-419, 617-619).
CreateExporter ==
    /\ ctorPc = "input"
    /\ LET merged == MergeConfig(DEFAULT_CONFIG, userConfig) IN
       IF ValidateConfig(merged)
       THEN /\ exporter' = [exists |-> TRUE, config |-> merged]
            /\ ctorPc' = "constructed"
       ELSE /\ exporter' = NoExporter
            /\ ctorPc' = "threw"
    /\ UNCHANGED userConfig
    /\ UNCHANGED notCtorVars

---------------------------------------------------------------------------
(* The size-preset exporter of src/unnamed/part_005, with sizeConfig.js    *)
(* (the second part of src/app/examples.js).                               *)

LowerSeq == <<"a","b","c","d","e","f","g","h","i","j","k","l","m",
              "n","o","p","q","r","s","t","u","v","w","x","y","z">>
UpperSeq == <<"A","B","C","D","E","F","G","H","I","J","K","L","M",
              "N","O","P","Q","R","S","T","U","V","W","X","Y","Z">>

\* String.prototype.toUpperCase
ToUpperCase(s) ==
    [k \in 1..Len(s) |->
        IF \E j \in 1..Len(LowerSeq) : LowerSeq[j] = s[k]
        THEN UpperSeq[CHOOSE j \in 1..Len(LowerSeq) : LowerSeq[j] = s[k]]
        ELSE s[k]]

\* A size is a number (square) or an object { width, height }.
SquareSize(n) == [kind |-> "number", n |-> n, width |-> 0, height |-> 0]
RectSize(w, h) == [kind |-> "object", n |-> 0, width |-> w, height |-> h]

T_SQUARE       == <<"S", "Q", "U", "A", "R", "E">>
T_RECTANGULAR  == <<"R", "E", "C", "T", "A", "N", "G", "U", "L", "A", "R">>
T_MOBILE       == <<"M", "O", "B", "I", "L", "E">>
T_SOCIAL_MEDIA == <<"S", "O", "C", "I", "A", "L", "_", "M", "E", "D", "I", "A">>
T_square       == <<"s", "q", "u", "a", "r", "e">>
T_banner       == <<"b", "a", "n", "n", "e", "r">>

\* SIZE_PRESETS (src/app/examples.js, lines 135-182)
PresetNames == {T_SQUARE, T_RECTANGULAR, T_MOBILE, T_SOCIAL_MEDIA}
PresetSizes(name) ==
    IF name = T_SQUARE THEN
        <<SquareSize(16),
          SquareSize(24),
          SquareSize(32),
          SquareSize(48),
          SquareSize(64),
          SquareSize(96),
          SquareSize(128),
          SquareSize(256),
          SquareSize(512)>>
    ELSE IF name = T_RECTANGULAR THEN
        <<RectSize(32, 16),
          RectSize(64, 32),
          RectSize(128, 64),
          RectSize(300, 150),
          RectSize(400, 200),
          RectSize(800, 400),
          RectSize(120, 60),
          RectSize(240, 120)>>
    ELSE IF name = T_MOBILE THEN
        <<RectSize(375, 812),
          RectSize(390, 844),
          RectSize(428, 926),
          RectSize(393, 852),
          RectSize(430, 932)>>
    ELSE
        <<RectSize(1200, 630),
          RectSize(1080, 1080),
          RectSize(1080, 566),
          RectSize(1080, 1350),
          RectSize(1200, 1200),
          RectSize(1584, 396),
          RectSize(400, 400)>>

\* getSizeType(sizes)
GetSizeType(sizes) ==
    IF Len(sizes) = 0 THEN "unknown"
    ELSE IF sizes[1].kind = "number" THEN "square"
    ELSE IF sizes[1].kind = "object" /\ sizes[1].width # 0 /\ sizes[1].height # 0
         THEN "rectangular"
    ELSE "unknown"

\* validateSizes(sizes): the size type, or "throws".
ValidateSizes(sizes) ==
    IF Len(sizes) = 0 THEN "throws"
    ELSE LET sizeType == GetSizeType(sizes) IN
         IF sizeType = "square"
         THEN IF \A k \in 1..Len(sizes) :
                    sizes[k].kind = "number" /\ sizes[k].n > 0
              THEN sizeType ELSE "throws"
         ELSE IF sizeType = "rectangular"
         THEN IF \A k \in 1..Len(sizes) :
                    /\ sizes[k].kind = "object"
                    /\ sizes[k].width # 0 /\ sizes[k].height # 0
                    /\ sizes[k].width > 0 /\ sizes[k].height > 0
              THEN sizeType ELSE "throws"
         ELSE "throws"

\* getSizePreset(presetName) finds a preset (it throws otherwise).
HasSizePreset(presetName) == ToUpperCase(presetName) \in PresetNames

\* IconExporter.setupSizes(): this.sizes
SetupSizes(cfg) ==
    IF cfg.hasCustomSizes THEN cfg.customSizes
    ELSE PresetSizes(ToUpperCase(cfg.sizePreset))

\* IconExporter.setupSizes(): this.sizeType
SetupSizeType(cfg) ==
    IF cfg.hasCustomSizes THEN ValidateSizes(cfg.customSizes)
    ELSE GetSizeType(PresetSizes(ToUpperCase(cfg.sizePreset)))

\* The constructor returns: validateConfig (92-109) and setupSizes (55-64)
\* do not throw.
P5Constructs(cfg) ==
    /\ Len(cfg.collections) # 0
    /\ cfg.outputDir # Empty
    /\ cfg.case \in VALID_CASE_TYPES
    /\ cfg.hasCustomSizes => ValidateSizes(cfg.customSizes) # "throws"
    /\ ~cfg.hasCustomSizes => HasSizePreset(cfg.sizePreset)


\* DEFAULT_CONFIG of part_005 (lines 10-33), the fields the run reads.
P5_DEFAULT_CONFIG ==
    [collections    |-> << >>,
     iconsToExport  |-> << >>,
     outputDir      |-> T_icons,
     defaultSize    |-> 48,
     defaultColor   |-> T_red,
     sizePreset     |-> T_SQUARE,
     hasCustomSizes |-> FALSE,
     customSizes    |-> << >>,
     case           |-> "kebab"]

P5CandidateConfigs ==
    {[P5_DEFAULT_CONFIG EXCEPT !.collections = cs, !.iconsToExport = is,
                               !.sizePreset = sp, !.defaultColor = dc] :
        cs \in Prefixes(KnownCollections, 1, Len(KnownCollections)),
        is \in {<< >>, <<T_home, T_ghost>>},
        sp \in {T_SQUARE, T_square, T_RECTANGULAR, T_MOBILE, T_SOCIAL_MEDIA,
                T_banner},
        dc \in {T_red, Empty}}
    \cup
    {[P5_DEFAULT_CONFIG EXCEPT !.collections = cs, !.iconsToExport = is,
                               !.hasCustomSizes = TRUE, !.customSizes = sz] :
        cs \in Prefixes(KnownCollections, 1, Len(KnownCollections)),
        is \in {<< >>, <<T_home, T_ghost>>},
        sz \in {<<SquareSize(48)>>, <<SquareSize(24), SquareSize(32)>>,
                <<RectSize(300, 150)>>,
                <<SquareSize(24), RectSize(300, 150)>>}}

P5VariantArgs ==
    [hasSizes  : BOOLEAN,
     sizes     : {<<SquareSize(16)>>, <<SquareSize(16), SquareSize(32)>>},
     hasColors : BOOLEAN,
     colors    : {<<T_red>>, <<T_red, T_blue>>}]

P5NoResult == [returned |-> FALSE, processed |-> 0, errors |-> 0]

P5Idle ==
    /\ p5Config = P5_DEFAULT_CONFIG
    /\ p5Sizes = << >>
    /\ p5SizeType = "unknown"
    /\ p5Entry = "none"
    /\ p5Variants = [sizes |-> << >>, colors |-> << >>]
    /\ p5Pc = "off"
    /\ p5Ci = 0 /\ p5Ii = 0 /\ p5Si = 0 /\ p5Coli = 0
    /\ p5Icons = << >>
    /\ p5Processed = 0 /\ p5Errors = 0
    /\ p5TotalProcessed = 0 /\ p5TotalErrors = 0
    /\ p5Attempts = << >>
    /\ p5Result = P5NoResult

\* The exporter as the constructor leaves it.
P5Init ==
    /\ p5Config \in {cfg \in P5CandidateConfigs : P5Constructs(cfg)}
    /\ p5Sizes = SetupSizes(p5Config)
    /\ p5SizeType = SetupSizeType(p5Config)
    /\ p5Entry = "none"
    /\ p5Variants = [sizes |-> << >>, colors |-> << >>]
    /\ p5Pc = "idle"
    /\ p5Ci = 0 /\ p5Ii = 0 /\ p5Si = 0 /\ p5Coli = 0
    /\ p5Icons = << >>
    /\ p5Processed = 0 /\ p5Errors = 0
    /\ p5TotalProcessed = 0 /\ p5TotalErrors = 0
    /\ p5Attempts = << >>
    /\ p5Result = P5NoResult

\* The defaults of exportWithVariants (lines 447-451), with the sizes left
\* out replaced by [config.defaultSize].
P5ResolveVariants_DefaultSize(cfg, thisSizes, v) ==
    [sizes  |-> IF v.hasSizes THEN v.sizes ELSE <<SquareSize(cfg.defaultSize)>>,
     colors |-> IF v.hasColors THEN v.colors ELSE <<cfg.defaultColor>>]

\* const { sizes = this.sizes, colors = [this.config.defaultColor] } = variants
P5ResolveVariants(cfg, thisSizes, v) ==
    [sizes  |-> IF v.hasSizes THEN v.sizes ELSE thisSizes,
     colors |-> IF v.hasColors THEN v.colors ELSE <<cfg.defaultColor>>]

\* exportIcons() calls exportWithVariants() with no argument: variants = {}.
NoVariantArgs ==
    [hasSizes |-> FALSE, sizes |-> <<SquareSize(16)>>,
     hasColors |-> FALSE, colors |-> <<T_red>>]

\* exportWithVariants, lines 446-456: the defaults and the root directory.
P5Begin(entry, v) ==
    /\ p5Pc = "idle"
    /\ p5Entry' = entry
    /\ p5Variants' = P5ResolveVariants(p5Config, p5Sizes, v)
    /\ p5Ci' = 1
    /\ \E rootOk \in BOOLEAN :
          p5Pc' = IF rootOk THEN "collection" ELSE "raised"
    /\ UNCHANGED <<p5Config, p5Sizes, p5SizeType, p5Ii, p5Si, p5Coli, p5Icons,
                   p5Processed, p5Errors, p5TotalProcessed, p5TotalErrors,
                   p5Attempts, p5Result>>
    /\ UNCHANGED notP5Vars

\* exporter.exportIcons() (lines 537-539)
P5ExportIcons == P5Begin("exportIcons", NoVariantArgs)

\* exporter.exportWithVariants(variants) called by the host program
P5ExportWithVariants ==
    \E v \in P5VariantArgs : P5Begin("exportWithVariants", v)

\* exportWithVariants, lines 461-466: load the next collection.
P5LoadCollection ==
    /\ p5Pc = "collection"
    /\ p5Ci <= Len(p5Config.collections)
    /\ \E loaded \in BOOLEAN :
          IF loaded
          THEN /\ p5Icons' = GetIconsToProcess(p5Config,
                                               p5Config.collections[p5Ci])
               /\ p5Ii' = 1
               /\ p5Pc' = "icon"
          ELSE /\ p5Pc' = "raised"
               /\ UNCHANGED <<p5Icons, p5Ii>>
    /\ UNCHANGED <<p5Config, p5Sizes, p5SizeType, p5Entry, p5Variants, p5Ci,
                   p5Si, p5Coli, p5Processed, p5Errors, p5TotalProcessed,
                   p5TotalErrors, p5Attempts, p5Result>>
    /\ UNCHANGED notP5Vars

\* processCollectionWithVariants, lines 494-498: the next icon is validated.
P5ValidateIcon ==
    /\ p5Pc = "icon"
    /\ p5Ii <= Len(p5Icons)
    /\ p5Attempts' = << >>
    /\ IF ~ValidateIconOk(p5Config.collections[p5Ci], p5Icons[p5Ii])
       THEN /\ p5Errors' = p5Errors
                             + Len(p5Variants.sizes) * Len(p5Variants.colors)
            /\ p5Ii' = p5Ii + 1
            /\ UNCHANGED <<p5Pc, p5Si, p5Coli>>
       ELSE IF Len(p5Variants.sizes) = 0 \/ Len(p5Variants.colors) = 0
            THEN /\ p5Ii' = p5Ii + 1
                 /\ UNCHANGED <<p5Pc, p5Si, p5Coli, p5Errors>>
            ELSE /\ p5Si' = 1
                 /\ p5Coli' = 1
                 /\ p5Pc' = "process"
                 /\ UNCHANGED <<p5Ii, p5Errors>>
    /\ UNCHANGED <<p5Config, p5Sizes, p5SizeType, p5Entry, p5Variants, p5Ci,
                   p5Icons, p5Processed, p5TotalProcessed, p5TotalErrors,
                   p5Result>>
    /\ UNCHANGED notP5Vars

\* One call of processIcon (354-405), which returns true or false and never
\* throws, and the counting of lines 502-512 with the move to the next
\* color, size or icon.
P5ProcessIcon ==
    /\ p5Pc = "process"
    /\ p5Attempts' = Append(p5Attempts, <<p5Variants.sizes[p5Si],
                                         p5Variants.colors[p5Coli]>>)
    /\ \E success \in BOOLEAN :
          IF success
          THEN p5Processed' = p5Processed + 1 /\ UNCHANGED p5Errors
          ELSE p5Errors' = p5Errors + 1 /\ UNCHANGED p5Processed
    /\ IF p5Coli < Len(p5Variants.colors)
       THEN /\ p5Coli' = p5Coli + 1
            /\ UNCHANGED <<p5Si, p5Ii, p5Pc>>
       ELSE IF p5Si < Len(p5Variants.sizes)
            THEN /\ p5Si' = p5Si + 1
                 /\ p5Coli' = 1
                 /\ UNCHANGED <<p5Ii, p5Pc>>
            ELSE /\ p5Si' = 0
                 /\ p5Coli' = 0
                 /\ p5Ii' = p5Ii + 1
                 /\ p5Pc' = "icon"
    /\ UNCHANGED <<p5Config, p5Sizes, p5SizeType, p5Entry, p5Variants, p5Ci,
                   p5Icons, p5TotalProcessed, p5TotalErrors, p5Result>>
    /\ UNCHANGED notP5Vars

\* processCollectionWithVariants returns (516); lines 472-473 add its counts.
P5FinishCollection ==
    /\ p5Pc = "icon"
    /\ p5Ii > Len(p5Icons)
    /\ p5TotalProcessed' = p5TotalProcessed + p5Processed
    /\ p5TotalErrors' = p5TotalErrors + p5Errors
    /\ p5Processed' = 0
    /\ p5Errors' = 0
    /\ p5Icons' = << >>
    /\ p5Ii' = 0
    /\ p5Ci' = p5Ci + 1
    /\ p5Pc' = "collection"
    /\ UNCHANGED <<p5Config, p5Sizes, p5SizeType, p5Entry, p5Variants, p5Si,
                   p5Coli, p5Attempts, p5Result>>
    /\ UNCHANGED notP5Vars

\* exportWithVariants, lines 478-479: the summary and the returned counters.
P5Summarize ==
    /\ p5Pc = "collection"
    /\ p5Ci > Len(p5Config.collections)
    /\ p5Result' = [returned |-> TRUE, processed |-> p5TotalProcessed,
                    errors |-> p5TotalErrors]
    /\ p5Pc' = "done"
    /\ UNCHANGED <<p5Config, p5Sizes, p5SizeType, p5Entry, p5Variants, p5Ci,
                   p5Ii, p5Si, p5Coli, p5Icons, p5Processed, p5Errors,
                   p5TotalProcessed, p5TotalErrors, p5Attempts>>
    /\ UNCHANGED notP5Vars


---------------------------------------------------------------------------
(* applyCase and FileHandler.sanitizeString of src/unnamed/part_000,       *)
(* called on their own.                                                    *)

\* String.prototype.toLowerCase
ToLowerCase(s) ==
    [k \in 1..Len(s) |->
        IF \E j \in 1..Len(UpperSeq) : UpperSeq[j] = s[k]
        THEN LowerSeq[CHOOSE j \in 1..Len(UpperSeq) : UpperSeq[j] = s[k]]
        ELSE s[k]]

RECURSIVE ReplaceEach(_, _, _)
\* replace(/[set]/g, rep): every character of the set becomes rep.
ReplaceEach(s, set, rep) ==
    IF s = << >> THEN << >>
    ELSE (IF Head(s) \in set THEN rep ELSE <<Head(s)>>)
         \o ReplaceEach(Tail(s), set, rep)

RECURSIVE HyphenLetterToUpper(_)
\* replace(/-([a-z])/g, (_, letter) => letter.toUpperCase()), and the
\* matches of PASCAL_CASE_PATTERN after the start of the string.
HyphenLetterToUpper(s) ==
    IF s = << >> THEN << >>
    ELSE IF Head(s) = "-" /\ Len(s) >= 2 /\ s[2] \in LowerChars
         THEN ToUpperCase(<<s[2]>>) \o HyphenLetterToUpper(SubSeq(s, 3, Len(s)))
         ELSE <<Head(s)>> \o HyphenLetterToUpper(Tail(s))

\* toCamelCase of applyCase (line 190)
ToCamelCase(s) == HyphenLetterToUpper(s)

\* toPascalCase of applyCase (line 189): /(^|-)([a-z])/g matches a letter at
\* the start of the string or after a hyphen; the hyphens left are removed.
ToPascalCase(s) ==
    LET upper == IF s # << >> /\ Head(s) \in LowerChars
                 THEN ToUpperCase(<<Head(s)>>) \o HyphenLetterToUpper(Tail(s))
                 ELSE HyphenLetterToUpper(s)
    IN RemoveChars(upper, {"-"})

\* kebabStr of applyCase (lines 192-195)
KebabStr(str) ==
    LET a == ToLowerCase(str)
        b == ReplaceEach(a, SpaceChars, <<"-">>)
        c == CollapseRuns(b, {"-"}, <<"-">>)
    IN TrimHyphens(c)

\* The same function with 'original' returning its argument.
ApplyCase_Passthrough(str, caseType) ==
    CASE caseType = "camel"    -> ToCamelCase(KebabStr(str))
      [] caseType = "pascal"   -> ToPascalCase(KebabStr(str))
      [] caseType = "snake"    -> ReplaceEach(KebabStr(str), {"-"}, <<"_">>)
      [] caseType = "kebab"    -> KebabStr(str)
      [] OTHER                 -> str

\* applyCase(str, caseType) (lines 188-205)
ApplyCase(str, caseType) ==
    CASE caseType = "camel"    -> ToCamelCase(KebabStr(str))
      [] caseType = "pascal"   -> ToPascalCase(KebabStr(str))
      [] caseType = "snake"    -> ReplaceEach(KebabStr(str), {"-"}, <<"_">>)
      [] caseType = "kebab"    -> KebabStr(str)
      [] caseType = "original" -> ToPascalCase(KebabStr(str))
      [] OTHER                 -> str

\* The longest text the functions are called with.
MaxTextLen == 3

\* The characters of the texts: a lower-case and an upper-case letter, a
\* digit, the space, the hyphen, the dot, the underscore and the characters
\* of INVALID_FILENAME_CHARS.
TextChars ==
    {"a", "B", "7", " ", "-", ".", "_"} \cup INVALID_FILENAME_CHARS

\* Every text of at most n characters of TextChars.
TextsUpTo(n) == UNION {[1..m -> TextChars] : m \in 0..n}

\* The config argument of sanitizeString: only fileNaming.sanitize is read.
SanitizeConfig(enabled) == [DEFAULT_CONFIG EXCEPT !.fileNaming.sanitize = enabled]

TextIdle ==
    /\ txInput = Empty
    /\ txEnabled = TRUE
    /\ txSanitized = Empty
    /\ txAgain = Empty
    /\ txCase = "kebab"
    /\ txCased = Empty
    /\ txPc = "idle"

TextInit ==
    /\ txInput \in TextsUpTo(MaxTextLen)
    /\ txEnabled = TRUE
    /\ txSanitized = Empty
    /\ txAgain = Empty
    /\ txCase = "kebab"
    /\ txCased = Empty
    /\ txPc = "input"

\* sanitizeString(str, config) called on the input, then on its own result.
CallSanitizeString ==
    \/ /\ txPc = "input"
       /\ \E enabled \in BOOLEAN :
             /\ txEnabled' = enabled
             /\ txSanitized' = SanitizeString(txInput, SanitizeConfig(enabled))
       /\ txPc' = "sanitized"
       /\ UNCHANGED <<txInput, txAgain, txCase, txCased>>
       /\ UNCHANGED notTextVars
    \/ /\ txPc = "sanitized"
       /\ txAgain' = SanitizeString(txSanitized, SanitizeConfig(txEnabled))
       /\ txPc' = "resanitized"
       /\ UNCHANGED <<txInput, txEnabled, txSanitized, txCase, txCased>>
       /\ UNCHANGED notTextVars

\* applyCase(str, caseType) called on the input.
CallApplyCase ==
    /\ txPc = "input"
    /\ \E k \in VALID_CASE_TYPES \cup {"upper"} :
          /\ txCase' = k
          /\ txCased' = ApplyCase(txInput, k)
    /\ txPc' = "cased"
    /\ UNCHANGED <<txInput, txEnabled, txSanitized, txAgain>>
    /\ UNCHANGED notTextVars

---------------------------------------------------------------------------
(* Calls of FileHandler.generateFileName and generateFolderPath of         *)
(* src/unnamed/part_000 with one variant.                                  *)

NameIdle ==
    /\ fnConfig = DEFAULT_CONFIG
    /\ fnCollection = Empty
    /\ fnIcon = Empty
    /\ fnOptions = [hasSize |-> FALSE, size |-> 0, hasColor |-> FALSE,
                    color |-> Empty, format |-> Empty]
    /\ fnFile = Empty
    /\ fnFolder = Empty
    /\ fnPc = "idle"

\* '{icon}', the placeholder of line 274
T_icon == <<"{", "i", "c", "o", "n", "}">>

RECURSIVE ReplaceAll(_, _, _)
\* String.prototype.replace(/pat/g, rep) for a literal pat: every occurrence,
\* from left to right, is replaced.  (rep holds no '$'.)
ReplaceAll(s, pat, rep) ==
    LET i == IndexOf(s, pat) IN
    IF i = 0 THEN s
    ELSE SubSeq(s, 1, i - 1) \o rep
         \o ReplaceAll(SubSeq(s, i + Len(pat), Len(s)), pat, rep)

\* The five chained .replace calls of generateFileName (lines 272-277).
ResolveFilePattern(cfg, collection, iconName, options) ==
    LET size  == OptSize(cfg, options)
        color == OptColor(cfg, options)
        p1 == ReplaceFirst(cfg.fileNaming.pattern, T_collection, collection)
        p2 == ReplaceFirst(p1, T_icon, iconName)
        p3 == ReplaceFirst(p2, T_size, NumToString(size))
        p4 == ReplaceFirst(p3, T_color, ColorOrDefault(color))
    IN ReplaceFirst(p4, T_format, options.format)

\* FileHandler.generateFileName(config, collection, iconName, options)
GenerateFileName(cfg, collection, iconName, options) ==
    LET resolved  == ResolveFilePattern(cfg, collection, iconName, options)
        sanitized == SanitizeString(resolved, cfg)
        fileName  == ApplyCase(sanitized, cfg.fileNaming.case)
    IN fileName \o <<".">> \o options.format

T_patIconTwice == <<"{", "i", "c", "o", "n", "}", "-", "{", "i", "c", "o", "n", "}">>
T_patIconSize  == <<"{", "i", "c", "o", "n", "}", "-", "{", "s", "i", "z", "e", "}">>
T_patCollTwice == <<"{", "c", "o", "l", "l", "e", "c", "t", "i", "o", "n", "}", "/", "{", "c", "o", "l", "l", "e", "c", "t", "i", "o", "n", "}">>
T_arrowUp      == <<"a", "r", "r", "o", "w", "-", "u", "p">>

\* The configurations the two methods are called with: a file name pattern,
\* a folder pattern, a case and the sanitize switch.
NameConfigs ==
    {[DEFAULT_CONFIG EXCEPT !.fileNaming.pattern = fp,
                            !.fileNaming.case = k,
                            !.fileNaming.sanitize = sn,
                            !.folderStructure.pattern = dp] :
        fp \in {DEFAULT_CONFIG.fileNaming.pattern, T_patIconTwice, T_patIconSize},
        k  \in {"kebab", "camel", "original"},
        sn \in BOOLEAN,
        dp \in {T_collection, T_patCollTwice, T_patCollSize}}

\* The options processIcon passes (lines 498-499): size, color and format.
NameOptions ==
    [hasSize : {TRUE}, size : {16, 32}, hasColor : {TRUE},
     color : {T_red, T_hex}, format : {T_svg, T_png}]

NameInit ==
    /\ fnConfig \in NameConfigs
    /\ fnCollection \in {T_mdi, T_fa}
    /\ fnIcon \in {T_home, T_arrowUp}
    /\ fnOptions \in NameOptions
    /\ fnFile = Empty
    /\ fnFolder = Empty
    /\ fnPc = "input"

\* this.fileHandler.generateFileName(this.config, collection, iconName, ...)
CallGenerateFileName ==
    /\ fnPc = "input"
    /\ fnFile' = GenerateFileName(fnConfig, fnCollection, fnIcon, fnOptions)
    /\ fnPc' = "named"
    /\ UNCHANGED <<fnConfig, fnCollection, fnIcon, fnOptions, fnFolder>>
    /\ UNCHANGED notNameVars

\* this.fileHandler.generateFolderPath(this.config, collection, ...)
CallGenerateFolderPathOfName ==
    /\ fnPc = "input"
    /\ fnFolder' = GenerateFolderPath(fnConfig, fnCollection, fnOptions)
    /\ fnPc' = "placed"
    /\ UNCHANGED <<fnConfig, fnCollection, fnIcon, fnOptions, fnFile>>
    /\ UNCHANGED notNameVars

---------------------------------------------------------------------------
(* FileHandler.generateFileName of src/unnamed/part_006.                   *)

P6Idle ==
    /\ p6Config = DEFAULT_CONFIG
    /\ p6Collection = Empty
    /\ p6Icon = Empty
    /\ p6Options = [hasSize |-> FALSE, size |-> 0, hasColor |-> FALSE,
                    color |-> Empty, format |-> Empty]
    /\ p6Now = 0
    /\ p6Names = << >>

\* FileHandler.sanitizeString(str, config) of part_006 (lines 105-115)
SanitizeString6(str, cfg) ==
    IF ~cfg.fileNaming.sanitize THEN str
    ELSE LET a == RemoveChars(str, INVALID_FILENAME_CHARS)
             b == CollapseRuns(a, SpaceChars, <<"-">>)
             c == KeepChars(b, WordChars \cup {"-", "."})
             d == CollapseRuns(c, {"-"}, <<"-">>)
         IN ToLowerCase(TrimHyphens(d))

\* kebabStr of part_006's applyCase (lines 59-64)
KebabStr6(str) ==
    LET a == ToLowerCase(str)
        b == KeepChars(a, WordChars \cup SpaceChars \cup {"-"})
        c == CollapseRuns(b, SpaceChars, <<"-">>)
        d == CollapseRuns(c, {"-"}, <<"-">>)
    IN TrimHyphens(d)

\* toCamelCase of part_006's applyCase (lines 53-56)
ToCamelCase6(s) ==
    LET pascal == ToPascalCase(s) IN
    IF pascal = << >> THEN << >>
    ELSE ToLowerCase(<<Head(pascal)>>) \o Tail(pascal)

\* applyCase(str, caseType) of part_006 (lines 49-73)
ApplyCase6(str, caseType) ==
    CASE caseType = "original" -> str
      [] caseType = "camel"    -> ToCamelCase6(KebabStr6(str))
      [] caseType = "pascal"   -> ToPascalCase(KebabStr6(str))
      [] caseType = "snake"    -> ReplaceEach(KebabStr6(str), {"-"}, <<"_">>)
      [] caseType = "kebab"    -> KebabStr6(str)
      [] OTHER                 -> str

\* 'icon-', the prefix of the fallback name of line 131
T_iconPrefix == <<"i", "c", "o", "n", "-">>

\* FileHandler.generateFileName(config, collection, iconName, options) of
\* part_006 (lines 117-134); now is what Date.now() returns during the call.
GenerateFileName6(cfg, collection, iconName, options, now) ==
    LET size  == OptSize(cfg, options)
        color == OptColor(cfg, options)
        p1 == ReplaceAll(cfg.fileNaming.pattern, T_collection, collection)
        p2 == ReplaceAll(p1, T_icon, iconName)
        p3 == ReplaceAll(p2, T_size, NumToString(size))
        p4 == ReplaceAll(p3, T_color, ColorOrDefault(color))
        p5 == ReplaceAll(p4, T_format, options.format)
        cased == ApplyCase6(SanitizeString6(p5, cfg), cfg.fileNaming.case)
        fileName == IF cased = Empty
                    THEN T_iconPrefix \o NumToString(now)
                    ELSE cased
    IN fileName \o <<".">> \o options.format

\* How far the clock runs, and how many calls are made.
MaxClock == 2
MaxCalls == 2

T_stars == <<"*", "*", "*">>

\* The configurations generateFileName is called with.
P6Configs ==
    {[DEFAULT_CONFIG EXCEPT !.fileNaming.pattern = fp,
                            !.fileNaming.case = k,
                            !.fileNaming.sanitize = sn] :
        fp \in {DEFAULT_CONFIG.fileNaming.pattern, T_icon, T_patIconTwice},
        k  \in {"kebab", "camel", "original"},
        sn \in BOOLEAN}

P6Init ==
    /\ p6Config \in P6Configs
    /\ p6Collection \in {T_mdi}
    /\ p6Icon \in {T_home, T_arrowUp, T_stars, Empty}
    /\ p6Options \in [hasSize : BOOLEAN, size : {16}, hasColor : BOOLEAN,
                       color : {T_hex}, format : {T_svg, T_png}]
    /\ p6Now = 0
    /\ p6Names = << >>

\* Time passes: Date.now() returns a later value.
P6Tick ==
    /\ p6Now < MaxClock
    /\ p6Now' = p6Now + 1
    /\ UNCHANGED <<p6Config, p6Collection, p6Icon, p6Options, p6Names>>
    /\ UNCHANGED notP6Vars

\* One call of generateFileName with the fixed config and tuple.
P6GenerateFileName ==
    /\ Len(p6Names) < MaxCalls
    /\ p6Names' = Append(p6Names,
                     GenerateFileName6(p6Config, p6Collection, p6Icon,
                                       p6Options, p6Now))
    /\ UNCHANGED <<p6Config, p6Collection, p6Icon, p6Options, p6Now>>
    /\ UNCHANGED notP6Vars

---------------------------------------------------------------------------
(* SvgProcessor.generateSvg of src/unnamed/part_000.                       *)

SvgIdle ==
    /\ svBody = Empty
    /\ svFound = FALSE
    /\ svColor = Empty
    /\ svSize = 0
    /\ svResult = Empty
    /\ svPc = "idle"

\* FILL_ATTRIBUTE_PATTERN = /(fill|stroke)=("|')[^"']*("|')/ (line 177)
T_fillEq   == <<"f", "i", "l", "l", "=">>
T_strokeEq == <<"s", "t", "r", "o", "k", "e", "=">>
QuoteChars == {"\"", "'"}

\* FILL_ATTRIBUTE_PATTERN.test(s): 'fill=' or 'stroke=', a quote, characters
\* that are not quotes, a quote.
FillAttributePatternTest(s) ==
    \E i \in 1..Len(s) : \E name \in {T_fillEq, T_strokeEq} :
        /\ MatchesAt(s, name, i)
        /\ i + Len(name) <= Len(s)
        /\ s[i + Len(name)] \in QuoteChars
        /\ \E j \in (i + Len(name) + 1)..Len(s) : s[j] \in QuoteChars

T_pathTag == <<"<", "p", "a", "t", "h">>

\* `<path fill="${targetColor}"` (line 389)
PathWithFill(color) == T_pathTag \o <<" ", "f", "i", "l", "l", "=", "\"">> \o color \o <<"\"">>

\* renderData.attributes.viewBox of the icons
T_viewBox == <<"0", " ", "0", " ", "2", "4", " ", "2", "4">>

\* The template literal of lines 394-396, before and after the body.
SvgOpen(size) ==
    Concat(<<<<"<", "s", "v", "g", " ", "x", "m", "l", "n", "s", "=", "\"", "h", "t", "t", "p", ":", "/", "/", "w", "w", "w", ".", "w", "3", ".", "o", "r", "g", "/", "2", "0", "0", "0", "/", "s", "v", "g", "\"", " ", "v", "i", "e", "w", "B", "o", "x", "=", "\"">>,
             T_viewBox,
             <<"\"", " ", "w", "i", "d", "t", "h", "=", "\"">>,
             NumToString(size),
             <<"\"", " ", "h", "e", "i", "g", "h", "t", "=", "\"">>,
             NumToString(size),
             <<"\"", ">", "\n", " ", " ", " ", " ">>>>)
SvgClose == <<"\n", "<", "/", "s", "v", "g", ">">>

\* The same method injecting the color into the first <path only.
GenerateSvg_FirstPathOnly(body, size, color) ==
    LET targetColor == IF color = Empty THEN DEFAULT_CONFIG.defaultColor
                       ELSE color
        processedBody ==
            IF /\ ~FillAttributePatternTest(body)
               /\ targetColor # Empty
               /\ targetColor # T_currentColor
            THEN ReplaceFirst(body, T_pathTag, PathWithFill(targetColor))
            ELSE body
    IN SvgOpen(size) \o processedBody \o SvgClose

\* The same method without the test for the sentinel 'currentColor'.
GenerateSvg_NoSentinel(body, size, color) ==
    LET targetColor == IF color = Empty THEN DEFAULT_CONFIG.defaultColor
                       ELSE color
        processedBody ==
            IF ~FillAttributePatternTest(body) /\ targetColor # Empty
            THEN ReplaceAll(body, T_pathTag, PathWithFill(targetColor))
            ELSE body
    IN SvgOpen(size) \o processedBody \o SvgClose

\* SvgProcessor.generateSvg(data, iconName, collection, size, color), lines
\* 371-398, for an icon getIconData finds; body is renderData.body.
GenerateSvg(body, size, color) ==
    LET targetColor == IF color = Empty THEN DEFAULT_CONFIG.defaultColor
                       ELSE color
        processedBody ==
            IF /\ ~FillAttributePatternTest(body)
               /\ targetColor # Empty
               /\ targetColor # T_currentColor
            THEN ReplaceAll(body, T_pathTag, PathWithFill(targetColor))
            ELSE body
    IN SvgOpen(size) \o processedBody \o SvgClose

\* The most elements a body has.
MaxElements == 2

\* Elements of icon bodies: without a color attribute, with fill or stroke
\* in double or single quotes, and an element that is not a path.
E_path        == <<"<", "p", "a", "t", "h", " ", "d", "=", "\"", "M", "0", " ", "0", "\"", "/", ">">>
E_pathNone    == <<"<", "p", "a", "t", "h", " ", "f", "i", "l", "l", "=", "\"", "n", "o", "n", "e", "\"", " ", "d", "=", "\"", "M", "1", " ", "1", "\"", "/", ">">>
E_pathStroke  == <<"<", "p", "a", "t", "h", " ", "s", "t", "r", "o", "k", "e", "=", "'", "r", "e", "d", "'", " ", "d", "=", "\"", "M", "2", " ", "2", "\"", "/", ">">>
E_pathFilled  == <<"<", "p", "a", "t", "h", " ", "f", "i", "l", "l", "=", "\"", "#", "0", "0", "0", "\"", " ", "d", "=", "\"", "M", "3", " ", "3", "\"", "/", ">">>
E_circle      == <<"<", "c", "i", "r", "c", "l", "e", " ", "r", "=", "\"", "2", "\"", "/", ">">>
BodyElements == {E_path, E_pathNone, E_pathStroke, E_pathFilled, E_circle}

\* Every body of at most n elements.
BodiesUpTo(n) ==
    {Concat(es) : es \in UNION {[1..m -> BodyElements] : m \in 0..n}}

T_FF0000 == <<"#", "F", "F", "0", "0", "0", "0">>

SvgInit ==
    /\ svBody \in BodiesUpTo(MaxElements)
    /\ svFound \in BOOLEAN
    /\ svColor \in {Empty, T_currentColor, T_FF0000, T_red}
    /\ svSize \in {16, 32}
    /\ svResult = Empty
    /\ svPc = "input"

\* this.svgProcessor.generateSvg(data, iconName, collection, size, color)
CallGenerateSvg ==
    /\ svPc = "input"
    /\ IF svFound
       THEN /\ svResult' = GenerateSvg(svBody, svSize, svColor)
            /\ svPc' = "returned"
       ELSE /\ svResult' = Empty
            /\ svPc' = "threw"
    /\ UNCHANGED <<svBody, svFound, svColor, svSize>>
    /\ UNCHANGED notSvgVars

---------------------------------------------------------------------------
(* SvgProcessor.applyColorToSvgBody of src/export-icons-31.js.             *)

ColorIdle ==
    /\ acBody = Empty
    /\ acColor = Empty
    /\ acResult = Empty
    /\ acPc = "idle"

T_fill   == <<"f", "i", "l", "l">>
T_stroke == <<"s", "t", "r", "o", "k", "e">>
T_none   == <<"n", "o", "n", "e">>
NewlineChars == {"\n", "\r"}

\* The first position from which text s holds pat, letters compared without
\* regard to case (the i flag); 0 when there is none.
IndexOfIgnoreCase(s, pat) == IndexOf(ToLowerCase(s), ToLowerCase(pat))

RECURSIVE ReplaceNoneValue(_, _, _)
\* body.replace(/attr="([^"]*)"/gi, ...) of lines 100-105 and 108-113: an
\* attribute whose value is 'none' or '' gets the color, any other is kept.
ReplaceNoneValue(s, attr, color) ==
    LET open  == attr \o <<"=", "\"">>
        i     == IndexOfIgnoreCase(s, open)
        from  == i + Len(open)
        close == IF i = 0 THEN {}
                 ELSE {j \in from..Len(s) : s[j] = "\""}
    IN IF close = {} THEN s
       ELSE LET j     == CHOOSE j \in close : \A k \in close : j <= k
                value == SubSeq(s, from, j - 1)
                match == SubSeq(s, i, j)
            IN SubSeq(s, 1, i - 1)
               \o (IF value = T_none \/ value = Empty
                   THEN attr \o <<"=", "\"">> \o color \o <<"\"">>
                   ELSE match)
               \o ReplaceNoneValue(SubSeq(s, j + 1, Len(s)), attr, color)

\* `<${tag} fill="${color}"` (lines 117 and 124)
TagWithFill(tag, color) ==
    <<"<">> \o tag \o <<" ", "f", "i", "l", "l", "=", "\"">> \o color \o <<"\"">>

RECURSIVE InjectIntoTag(_, _, _)
\* body.replace(/<path/gi, `<path fill="${color}"`) (line 117)
InjectIntoTag(s, tag, color) ==
    LET i == IndexOfIgnoreCase(s, <<"<">> \o tag) IN
    IF i = 0 THEN s
    ELSE SubSeq(s, 1, i - 1) \o TagWithFill(tag, color)
         \o InjectIntoTag(SubSeq(s, i + Len(tag) + 1, Len(s)), tag, color)

\* The lookahead (?!.*?fill=) of line 123 at the start of text s: 'fill='
\* occurs in what is left of the line.
FillFollowsOnLine(s) ==
    \E k \in 1..Len(s) :
        /\ MatchesAt(ToLowerCase(s), T_fillEq, k)
        /\ \A n \in 1..(k - 1) : s[n] \notin NewlineChars

RECURSIVE InjectIntoTagUnlessFillFollows(_, _, _)
\* body.replace(new RegExp(`<${tag}(?!.*?fill=)`, 'gi'), ...) (lines 123-124)
InjectIntoTagUnlessFillFollows(s, tag, color) ==
    LET i    == IndexOfIgnoreCase(s, <<"<">> \o tag)
        rest == SubSeq(s, i + Len(tag) + 1, Len(s))
    IN IF i = 0 THEN s
       ELSE SubSeq(s, 1, i - 1)
            \o (IF FillFollowsOnLine(rest)
                THEN SubSeq(s, i, i + Len(tag))
                ELSE TagWithFill(tag, color))
            \o InjectIntoTagUnlessFillFollows(rest, tag, color)

T_path     == <<"p", "a", "t", "h">>
T_circle   == <<"c", "i", "r", "c", "l", "e">>
T_rect     == <<"r", "e", "c", "t">>
T_ellipse  == <<"e", "l", "l", "i", "p", "s", "e">>
T_polygon  == <<"p", "o", "l", "y", "g", "o", "n">>
T_polyline == <<"p", "o", "l", "y", "l", "i", "n", "e">>

\* shapeElements (line 121), in the order of the forEach
shapeElements == <<T_circle, T_rect, T_ellipse, T_polygon, T_polyline>>

RECURSIVE InjectIntoShapes(_, _, _)
\* shapeElements.forEach(tag => ...) (lines 122-125)
InjectIntoShapes(s, tags, color) ==
    IF tags = << >> THEN s
    ELSE InjectIntoShapes(InjectIntoTagUnlessFillFollows(s, Head(tags), color),
                          Tail(tags), color)

\* SvgProcessor.applyColorToSvgBody(svgBody, color) (lines 95-128)
ApplyColorToSvgBody(svgBody, color) ==
    LET b1 == ReplaceNoneValue(svgBody, T_fill, color)
        b2 == ReplaceNoneValue(b1, T_stroke, color)
        b3 == IF ~Contains(b2, T_fillEq)
              THEN InjectIntoTag(b2, T_path, color)
              ELSE b2
    IN InjectIntoShapes(b3, shapeElements, color)

\* The most elements a body of this exporter has.
MaxShapes == 2

E_rect     == <<"<", "r", "e", "c", "t", " ", "w", "i", "d", "t", "h", "=", "\"", "4", "\"", " ", "h", "e", "i", "g", "h", "t", "=", "\"", "4", "\"", "/", ">">>
E_ellipse  == <<"<", "e", "l", "l", "i", "p", "s", "e", " ", "r", "x", "=", "\"", "2", "\"", " ", "r", "y", "=", "\"", "1", "\"", "/", ">">>
E_polygon  == <<"<", "p", "o", "l", "y", "g", "o", "n", " ", "p", "o", "i", "n", "t", "s", "=", "\"", "0", ",", "0", " ", "2", ",", "2", " ", "4", ",", "0", "\"", "/", ">">>
E_polyline == <<"<", "p", "o", "l", "y", "l", "i", "n", "e", " ", "p", "o", "i", "n", "t", "s", "=", "\"", "0", ",", "0", " ", "2", ",", "2", "\"", "/", ">">>
ShapeBodyElements ==
    {E_path, E_circle, E_rect, E_ellipse, E_polygon, E_polyline,
     E_pathNone, E_pathFilled}

\* Every body of at most n elements, all on one line.
ShapeBodiesUpTo(n) ==
    {Concat(es) : es \in UNION {[1..m -> ShapeBodyElements] : m \in 0..n}}

ColorInit ==
    /\ acBody \in ShapeBodiesUpTo(MaxShapes)
    /\ acColor \in {T_FF0000, T_red}
    /\ acResult = Empty
    /\ acPc = "input"

\* body = this.applyColorToSvgBody(body, color) (line 77)
CallApplyColorToSvgBody ==
    /\ acPc = "input"
    /\ acResult' = ApplyColorToSvgBody(acBody, acColor)
    /\ acPc' = "returned"
    /\ UNCHANGED <<acBody, acColor>>
    /\ UNCHANGED notColorVars

---------------------------------------------------------------------------
(* IconExporter.processCollectionWithVariants of src/unnamed/part_000 and  *)
(* the files it writes.                                                    *)

FsIdle ==
    /\ fsConfig = DEFAULT_CONFIG
    /\ fsVariants = [sizes |-> << >>, colors |-> << >>]
    /\ fsIcons = << >>
    /\ fsPc = "idle"
    /\ fsIi = 0 /\ fsSi = 0 /\ fsColi = 0 /\ fsFi = 0
    /\ fsSvgContent = Empty
    /\ fsRenders = 0
    /\ fsSuccessCount = 0 /\ fsErrorCount = 0
    /\ fsProcessed = 0 /\ fsErrors = 0
    /\ fsFiles = << >>
    /\ fsLog = << >>
    /\ fsFailures = 0

\* How many sizes a call is given, and how many of its steps fail.
MaxFsSizes  == 2
MaxFailures == 1

\* The collection whose icons are processed.
FsCollection == T_mdi

\* this.config: configurations validateConfig accepts, with patterns and
\* grouping under which different variants do or do not share a path.
FsConfigs ==
    {c \in {[DEFAULT_CONFIG EXCEPT !.collections = <<FsCollection>>,
                                   !.formats = fs,
                                   !.fileNaming.pattern = fp,
                                   !.folderStructure.groupBySize = gs] :
                fs \in {<<T_svg>>, <<T_svg, T_png>>, <<T_jpg>>},
                fp \in {DEFAULT_CONFIG.fileNaming.pattern, T_patIconSize},
                gs \in BOOLEAN} :
        ValidateConfig(c)}

\* svgContent before generateSvg has returned (line 483: null).
NoSvg == [icon |-> Empty, size |-> 0, color |-> Empty, render |-> 0]

\* The SVG text generateSvg returns: it is determined by the icon, the size
\* and the color, and render tells the calls of generateSvg apart.
RenderedSvg(iconName, size, color, render) ==
    [icon |-> iconName, size |-> size, color |-> color, render |-> render]

\* const targetFormat = format === 'jpg' ? 'jpeg' : format (line 222)
TargetFormat(format) == IF format = T_jpg THEN T_jpeg ELSE format

\* What is written for a format (lines 504-510): the SVG text itself, or the
\* image the converter makes of it.
FileContent(svg, format) ==
    IF format = T_svg THEN [format |-> T_svg, svg |-> svg]
    ELSE [format |-> TargetFormat(format), svg |-> svg]

\* fs.writeFile opened so that an existing file is kept.
WriteFile_KeepExisting(files, filePath, content) ==
    [p \in DOMAIN files \cup {filePath} |->
        IF p \in DOMAIN files THEN files[p] ELSE content]

\* fs.writeFile(filePath, content): the file is created or replaced.
WriteFile(files, filePath, content) ==
    [p \in DOMAIN files \cup {filePath} |->
        IF p = filePath THEN content ELSE files[p]]

\* const targetSize = size || this.config.defaultSize (line 484)
TargetSize(cfg, size) == IF size = 0 THEN cfg.defaultSize ELSE size

\* The options of lines 498-499: { size: targetSize, color, format }.
SaveOptions(cfg, size, color, format) ==
    [hasSize |-> TRUE, size |-> TargetSize(cfg, size), hasColor |-> TRUE,
     color |-> color, format |-> format]

\* filePath of line 500
FilePath(cfg, collection, iconName, size, color, format) ==
    PathJoin(GenerateFolderPath(cfg, collection,
                                SaveOptions(cfg, size, color, format)),
             GenerateFileName(cfg, collection, iconName,
                              SaveOptions(cfg, size, color, format)))

FsInit ==
    /\ fsConfig \in FsConfigs
    /\ fsVariants \in [sizes  : Prefixes(<<16, 32, 64>>, 1, MaxFsSizes),
                        colors : {<<T_red>>, <<T_red, T_hex>>}]
    /\ fsIcons \in {<<T_home>>, <<T_home, T_star>>, <<T_ghost, T_home>>}
    /\ fsPc = "icon"
    /\ fsIi = 1 /\ fsSi = 0 /\ fsColi = 0 /\ fsFi = 0
    /\ fsSvgContent = NoSvg
    /\ fsRenders = 0
    /\ fsSuccessCount = 0 /\ fsErrorCount = 0
    /\ fsProcessed = 0 /\ fsErrors = 0
    /\ fsFiles = << >>
    /\ fsLog = << >>
    /\ fsFailures = 0

\* Lines 534-538: the next icon is validated.
FsValidateIcon ==
    /\ fsPc = "icon"
    /\ fsIi <= Len(fsIcons)
    /\ IF ~ValidateIconOk(FsCollection, fsIcons[fsIi])
       THEN /\ fsErrors' = fsErrors + MissingIconErrors(fsConfig, fsVariants)
            /\ fsIi' = fsIi + 1
            /\ UNCHANGED <<fsPc, fsSi, fsColi>>
       ELSE /\ fsSi' = 1
            /\ fsColi' = 1
            /\ fsPc' = "render"
            /\ UNCHANGED <<fsIi, fsErrors>>
    /\ UNCHANGED <<fsConfig, fsVariants, fsIcons, fsFi, fsSvgContent, fsRenders,
                   fsSuccessCount, fsErrorCount, fsProcessed, fsFiles, fsLog,
                   fsFailures>>
    /\ UNCHANGED notFsVars

\* processIcon, lines 479-493: generateSvg is called once, and may throw.
FsGenerateSvg ==
    /\ fsPc = "render"
    /\ fsRenders' = fsRenders + 1
    /\ fsSuccessCount' = 0
    /\ \E rendered \in {TRUE} \cup {r \in {FALSE} : fsFailures < MaxFailures} :
          IF rendered
          THEN /\ fsSvgContent' =
                     RenderedSvg(fsIcons[fsIi],
                                 TargetSize(fsConfig, fsVariants.sizes[fsSi]),
                                 fsVariants.colors[fsColi], fsRenders + 1)
               /\ fsErrorCount' = 0
               /\ fsFi' = 1
               /\ fsPc' = "format"
               /\ UNCHANGED fsFailures
          ELSE /\ fsSvgContent' = NoSvg
               /\ fsErrorCount' = RenderFailureErrors(fsConfig)
               /\ fsFi' = 0
               /\ fsPc' = "return"
               /\ fsFailures' = fsFailures + 1
    /\ UNCHANGED <<fsConfig, fsVariants, fsIcons, fsIi, fsSi, fsColi,
                   fsProcessed, fsErrors, fsFiles, fsLog>>
    /\ UNCHANGED notFsVars

\* The same pass of the loop with the SVG generated again for the format.
FsSaveFormat_RenderPerFormat ==
    /\ fsPc = "format"
    /\ fsFi <= Len(fsConfig.formats)
    /\ \E filePath \in {FilePath(fsConfig, FsCollection, fsIcons[fsIi],
                                  fsVariants.sizes[fsSi],
                                  fsVariants.colors[fsColi],
                                  fsConfig.formats[fsFi])} :
       LET format   == fsConfig.formats[fsFi]
           iconName == fsIcons[fsIi]
           size     == fsVariants.sizes[fsSi]
           color    == fsVariants.colors[fsColi]
           svg      == RenderedSvg(iconName, TargetSize(fsConfig, size), color,
                                   fsRenders + 1)
           content  == FileContent(svg, format)
           entry    == [icon |-> fsIi, size |-> fsSi, color |-> fsColi,
                        format |-> fsFi, path |-> filePath,
                        content |-> content, ok |-> FALSE]
       IN \E outcome \in {"ok"} \cup
               {o \in SaveOutcomes(format) : fsFailures < MaxFailures} :
             /\ fsRenders' = fsRenders + 1
             /\ fsSvgContent' = svg
             /\ IF outcome = "ok"
                THEN /\ fsFiles' = WriteFile(fsFiles, filePath, content)
                     /\ fsLog' = Append(fsLog, [entry EXCEPT !.ok = TRUE])
                     /\ fsSuccessCount' = fsSuccessCount + 1
                     /\ UNCHANGED <<fsErrorCount, fsFailures>>
                ELSE /\ fsLog' = IF outcome = "writeFailed"
                                 THEN Append(fsLog, [entry EXCEPT !.ok = FALSE])
                                 ELSE fsLog
                     /\ fsErrorCount' = fsErrorCount + 1
                     /\ fsFailures' = fsFailures + 1
                     /\ UNCHANGED <<fsFiles, fsSuccessCount>>
    /\ fsFi' = fsFi + 1
    /\ fsPc' = IF fsFi = Len(fsConfig.formats) THEN "return" ELSE "format"
    /\ UNCHANGED <<fsConfig, fsVariants, fsIcons, fsIi, fsSi, fsColi,
                   fsProcessed, fsErrors>>
    /\ UNCHANGED notFsVars

\* processIcon, lines 496-522: one pass of the loop over config.formats: the
\* path is computed, the folder made, the SVG converted when the format is
\* not svg, and the file written; each of the three can throw.
FsSaveFormat ==
    /\ fsPc = "format"
    /\ fsFi <= Len(fsConfig.formats)
    /\ \E filePath \in {FilePath(fsConfig, FsCollection, fsIcons[fsIi],
                                  fsVariants.sizes[fsSi],
                                  fsVariants.colors[fsColi],
                                  fsConfig.formats[fsFi])} :
       LET format   == fsConfig.formats[fsFi]
           content  == FileContent(fsSvgContent, format)
           entry    == [icon |-> fsIi, size |-> fsSi, color |-> fsColi,
                        format |-> fsFi, path |-> filePath,
                        content |-> content, ok |-> FALSE]
       IN \E outcome \in {"ok"} \cup
               {o \in SaveOutcomes(format) : fsFailures < MaxFailures} :
             IF outcome = "ok"
             THEN /\ fsFiles' = WriteFile(fsFiles, filePath, content)
                  /\ fsLog' = Append(fsLog, [entry EXCEPT !.ok = TRUE])
                  /\ fsSuccessCount' = fsSuccessCount + 1
                  /\ UNCHANGED <<fsErrorCount, fsFailures>>
             ELSE /\ fsLog' = IF outcome = "writeFailed"
                              THEN Append(fsLog, [entry EXCEPT !.ok = FALSE])
                              ELSE fsLog
                  /\ fsErrorCount' = fsErrorCount + 1
                  /\ fsFailures' = fsFailures + 1
                  /\ UNCHANGED <<fsFiles, fsSuccessCount>>
    /\ fsFi' = fsFi + 1
    /\ fsPc' = IF fsFi = Len(fsConfig.formats) THEN "return" ELSE "format"
    /\ UNCHANGED <<fsConfig, fsVariants, fsIcons, fsIi, fsSi, fsColi,
                   fsSvgContent, fsRenders, fsProcessed, fsErrors>>
    /\ UNCHANGED notFsVars

\* processIcon returns (492, 524); lines 543-544 add its counts and the loops
\* of lines 540-541 move on.
FsProcessIconReturn ==
    /\ fsPc = "return"
    /\ fsProcessed' = fsProcessed + fsSuccessCount
    /\ fsErrors' = fsErrors + fsErrorCount
    /\ fsSuccessCount' = 0
    /\ fsErrorCount' = 0
    /\ fsSvgContent' = NoSvg
    /\ fsFi' = 0
    /\ IF fsColi < Len(fsVariants.colors)
       THEN /\ fsColi' = fsColi + 1
            /\ fsPc' = "render"
            /\ UNCHANGED <<fsSi, fsIi>>
       ELSE IF fsSi < Len(fsVariants.sizes)
            THEN /\ fsSi' = fsSi + 1
                 /\ fsColi' = 1
                 /\ fsPc' = "render"
                 /\ UNCHANGED fsIi
            ELSE /\ fsSi' = 0
                 /\ fsColi' = 0
                 /\ fsIi' = fsIi + 1
                 /\ fsPc' = "icon"
    /\ UNCHANGED <<fsConfig, fsVariants, fsIcons, fsRenders, fsFiles, fsLog,
                   fsFailures>>
    /\ UNCHANGED notFsVars

\* processCollectionWithVariants returns { processed, errors } (line 549).
FsReturn ==
    /\ fsPc = "icon"
    /\ fsIi > Len(fsIcons)
    /\ fsPc' = "done"
    /\ UNCHANGED <<fsConfig, fsVariants, fsIcons, fsIi, fsSi, fsColi, fsFi,
                   fsSvgContent, fsRenders, fsSuccessCount, fsErrorCount,
                   fsProcessed, fsErrors, fsFiles, fsLog, fsFailures>>
    /\ UNCHANGED notFsVars

\* The state of the functions and runs modelled after src/unnamed/part_005,
\* while another specification runs.
LaterIdle ==
    /\ TextIdle /\ NameIdle /\ P6Idle /\ SvgIdle /\ ColorIdle /\ FsIdle

---------------------------------------------------------------------------
(* IconExporter.exportAll of src/icon-exporter-complete.js: the batches of *)
(* processCollection, the counters of this.stats and the summary file.     *)
(* The run is modelled with config.verbose false, so that no log line      *)
(* reads the configuration.                                                 *)

\* The state of exportAll while another specification runs.
CompleteIdle ==
    /\ eaConfig = <<>>
    /\ eaLoadable = {}
    /\ eaPc = "unused"
    /\ eaCi = 0
    /\ eaIcons = <<>>
    /\ eaI = 0
    /\ eaTask = <<>>
    /\ eaStats = <<>>
    /\ eaSkipped = 0
    /\ eaSummaries = 0
    /\ eaSummaryFile = "none"
    /\ eaFailures = 0

\* How many icons a collection has, up to which value config.parallel is
\* drawn, and how many steps of a run fail.
MaxBatchIcons     == 4
MaxParallel       == 2
MaxExportFailures == 1

\* A config.sizes that cannot be iterated (sizes: null).
NotIterable == "null"

\* const batchSize = this.config.parallel || 3
BatchSize(cfg) == IF cfg.parallel = 0 THEN 3 ELSE cfg.parallel

\* The variants of one icon, in the order of the three loops of exportIcon.
IconVariants(cfg) ==
    IF cfg.sizes = NotIterable
    THEN <<>>
    ELSE LET ns == Len(cfg.sizes)
             nc == Len(cfg.colors)
             nf == Len(cfg.formats)
         IN  [k \in 1..(ns * nc * nf) |->
                [size   |-> cfg.sizes[((k - 1) \div (nc * nf)) + 1],
                 color  |-> cfg.colors[(((k - 1) \div nf) % nc) + 1],
                 format |-> cfg.formats[((k - 1) % nf) + 1]]]

\* icons.slice(i, i + batchSize), as the set of the positions it takes.
BatchSlice_Rest(iconList, i, batchSize) == i..Len(iconList)

BatchSlice(iconList, i, batchSize) ==
    {j \in 1..Len(iconList) : j >= i /\ j < i + batchSize}

\* const iconStats = { exported: 0, skipped: 0, errors: 0 }
NewIconStats == [exported |-> 0, skipped |-> 0, errors |-> 0]

\* An exportIcon call that has not been made.
PendingTask == [status |-> "pending", vi |-> 1, iconStats |-> NewIconStats]

\* The call of exportIcon: it runs up to its first await, or rejects when
\* config.sizes cannot be iterated.
StartedTask(cfg) ==
    [status    |-> IF cfg.sizes = NotIterable THEN "rejected" ELSE "inflight",
     vi        |-> 1,
     iconStats |-> NewIconStats]

\* Whether an exportIcon promise has settled.
Settled(task) == task.status \in {"fulfilled", "rejected"}

\* The names config.icons is made of.
IconNames == <<T_home, T_star, T_ghost, T_mdi, T_fa, T_red>>

\* The configurations and the collections that can be loaded.
CompleteInit ==
    /\ eaConfig \in
         [collections  : {<<T_mdi, T_fa>>},
          icons        : {SubSeq(IconNames, 1, n) : n \in 1..MaxBatchIcons},
          sizes        : {NotIterable, <<24, 48>>},
          colors       : {<<T_red>>},
          formats      : {<<T_svg>>},
          parallel     : 0..MaxParallel,
          skipExisting : BOOLEAN]
    /\ eaLoadable \in {{T_mdi}, {T_mdi, T_fa}}
    /\ eaPc = "idle"
    /\ eaCi = 0
    /\ eaIcons = <<>>
    /\ eaI = 0
    /\ eaTask = <<>>
    /\ eaStats = [totalIcons |-> 0, exported |-> 0, skipped |-> 0,
                  errors |-> 0, collectionsProcessed |-> 0]
    /\ eaSkipped = 0
    /\ eaSummaries = 0
    /\ eaSummaryFile = "none"
    /\ eaFailures = 0

\* exportAll up to its loop: initialize creates the output directory, and
\* exportAll rejects when it cannot.
Initialize ==
    /\ eaPc = "idle"
    /\ \E fails \in {f \in BOOLEAN : f => eaFailures < MaxExportFailures} :
         /\ eaPc' = IF fails THEN "rejected" ELSE "collection"
         /\ eaCi' = IF fails THEN eaCi ELSE 1
         /\ eaFailures' = IF fails THEN eaFailures + 1 ELSE eaFailures
    /\ UNCHANGED <<eaConfig, eaLoadable, eaIcons, eaI, eaTask, eaStats,
                   eaSkipped, eaSummaries, eaSummaryFile>>
    /\ UNCHANGED notCompleteVars

\* processCollection up to its loop: the collection is loaded and its icons
\* listed, or the failure is counted and the collection is over.
ProcessCollection ==
    /\ eaPc = "collection"
    /\ eaCi <= Len(eaConfig.collections)
    /\ IF eaConfig.collections[eaCi] \in eaLoadable
       THEN /\ eaIcons' = eaConfig.icons
            /\ eaTask' = [j \in 1..Len(eaConfig.icons) |-> PendingTask]
            /\ eaI' = 1
            /\ eaPc' = "batch"
            /\ UNCHANGED <<eaStats, eaCi>>
       ELSE /\ eaStats' = [eaStats EXCEPT !.errors = @ + 1]
            /\ eaCi' = eaCi + 1
            /\ UNCHANGED <<eaIcons, eaTask, eaI, eaPc>>
    /\ UNCHANGED <<eaConfig, eaLoadable, eaSkipped, eaSummaries,
                   eaSummaryFile, eaFailures>>
    /\ UNCHANGED notCompleteVars

\* One turn of the batch loop up to its await: exportIcon is called for
\* every icon of the slice.
DispatchBatch ==
    /\ eaPc = "batch"
    /\ eaI <= Len(eaIcons)
    /\ eaTask' = [j \in 1..Len(eaIcons) |->
                    IF j \in BatchSlice(eaIcons, eaI, BatchSize(eaConfig))
                    THEN StartedTask(eaConfig)
                    ELSE eaTask[j]]
    /\ eaPc' = "await"
    /\ UNCHANGED <<eaConfig, eaLoadable, eaCi, eaIcons, eaI, eaStats,
                   eaSkipped, eaSummaries, eaSummaryFile, eaFailures>>
    /\ UNCHANGED notCompleteVars

\* One turn of the innermost loop of an exportIcon call in flight: the
\* variant is skipped as existing, exported, or fails; after the last
\* variant the call returns its iconStats.
ExportIcon ==
    /\ eaPc = "await"
    /\ \E j \in 1..Len(eaTask) :
         /\ eaTask[j].status = "inflight"
         /\ \E outcome \in {"exported"}
                 \cup (IF eaConfig.skipExisting THEN {"skipped"} ELSE {})
                 \cup (IF eaFailures < MaxExportFailures
                       THEN {"errors"} ELSE {}) :
              /\ eaTask' =
                   [eaTask EXCEPT
                      ![j].iconStats[outcome] = @ + 1,
                      ![j].vi = @ + 1,
                      ![j].status =
                          IF eaTask[j].vi >= Len(IconVariants(eaConfig))
                          THEN "fulfilled" ELSE "inflight"]
              /\ eaStats' =
                   IF outcome = "skipped"
                   THEN eaStats
                   ELSE [eaStats EXCEPT ![outcome] = @ + 1]
              /\ eaSkipped' =
                   IF outcome = "skipped" THEN eaSkipped + 1 ELSE eaSkipped
              /\ eaFailures' =
                   IF outcome = "errors" THEN eaFailures + 1 ELSE eaFailures
    /\ UNCHANGED <<eaConfig, eaLoadable, eaPc, eaCi, eaIcons, eaI,
                   eaSummaries, eaSummaryFile>>
    /\ UNCHANGED notCompleteVars

\* Promise.allSettled resolves once every promise of the batch has settled;
\* the results are counted and the loop advances.
BatchSettled ==
    /\ eaPc = "await"
    /\ \E batch \in {BatchSlice(eaIcons, eaI, BatchSize(eaConfig))} :
         /\ \A j \in batch : Settled(eaTask[j])
         /\ eaStats' =
              [eaStats EXCEPT
                 !.totalIcons =
                     @ + Cardinality({j \in batch :
                                        eaTask[j].status = "fulfilled"}),
                 !.errors =
                     @ + Cardinality({j \in batch :
                                        eaTask[j].status = "rejected"})]
    /\ eaI' = eaI + BatchSize(eaConfig)
    /\ eaPc' = "batch"
    /\ UNCHANGED <<eaConfig, eaLoadable, eaCi, eaIcons, eaTask, eaSkipped,
                   eaSummaries, eaSummaryFile, eaFailures>>
    /\ UNCHANGED notCompleteVars

\* The batch loop is over: the collection is counted and exportAll goes to
\* the next one.
CollectionProcessed ==
    /\ eaPc = "batch"
    /\ eaI > Len(eaIcons)
    /\ eaStats' = [eaStats EXCEPT !.collectionsProcessed = @ + 1]
    /\ eaCi' = eaCi + 1
    /\ eaPc' = "collection"
    /\ UNCHANGED <<eaConfig, eaLoadable, eaIcons, eaI, eaTask, eaSkipped,
                   eaSummaries, eaSummaryFile, eaFailures>>
    /\ UNCHANGED notCompleteVars

\* exportAll after its loop: printSummary prints and calls
\* createSummaryFile, which runs up to its await of writeFile; the call is
\* not awaited, so printSummary and exportAll return with the write in
\* flight.
PrintSummary ==
    /\ eaPc = "collection"
    /\ eaCi > Len(eaConfig.collections)
    /\ eaSummaries' = eaSummaries + 1
    /\ eaSummaryFile' = "inflight"
    /\ eaPc' = "resolved"
    /\ UNCHANGED <<eaConfig, eaLoadable, eaCi, eaIcons, eaI, eaTask,
                   eaStats, eaSkipped, eaFailures>>
    /\ UNCHANGED notCompleteVars

\* The writeFile of createSummaryFile completes, or fails and is logged.
CreateSummaryFile ==
    /\ eaSummaryFile = "inflight"
    /\ eaSummaryFile' \in {"written", "failed"}
    /\ UNCHANGED <<eaConfig, eaLoadable, eaPc, eaCi, eaIcons, eaI, eaTask,
                   eaStats, eaSkipped, eaSummaries, eaFailures>>
    /\ UNCHANGED notCompleteVars

---------------------------------------------------------------------------
(* exportIcons of the first exporter of src/export-icons-3.js: the         *)
(* processIcon calls of one collection and the batch loop that awaits them. *)

\* The state of the exporter while another specification runs.
E3Idle ==
    /\ e3SkipExisting = FALSE
    /\ e3Pc = "unused"
    /\ e3I = 0
    /\ e3Task = <<>>
    /\ e3Stats = <<>>
    /\ e3Failures = 0

\* const BATCH_SIZE = 10
BATCH_SIZE == 10

\* How many icons the collection has to process, and how many processIcon
\* calls fail.
MaxCollectionIcons == 11
MaxIconFailures    == 1

\* The collection is loaded and getIconsToProcess has returned its icons.
E3Init ==
    /\ e3SkipExisting \in BOOLEAN
    /\ e3Pc = "map"
    /\ e3I = 0
    /\ e3Task \in {[j \in 1..n |-> "pending"] : n \in 1..MaxCollectionIcons}
    /\ e3Stats = [exported |-> 0, skipped |-> 0, errors |-> 0]
    /\ e3Failures = 0

\* iconsToProcess.map(iconName => processor.processIcon(...)): every call
\* is made, and runs up to its first await, before the batch loop begins.
MapProcessIcon ==
    /\ e3Pc = "map"
    /\ e3Task' = [j \in 1..Len(e3Task) |-> "started"]
    /\ e3I' = 1
    /\ e3Pc' = "batch"
    /\ UNCHANGED <<e3SkipExisting, e3Stats, e3Failures>>
    /\ UNCHANGED notE3Vars

\* A processIcon call finishes: the file existed and was skipped, was
\* written, or the write failed; the call never rejects.
ProcessIcon3 ==
    /\ \E j \in 1..Len(e3Task) :
         /\ e3Task[j] = "started"
         /\ e3Task' = [e3Task EXCEPT ![j] = "finished"]
    /\ \E outcome \in {"exported"}
            \cup (IF e3SkipExisting THEN {"skipped"} ELSE {})
            \cup (IF e3Failures < MaxIconFailures THEN {"errors"} ELSE {}) :
         /\ e3Stats' = [e3Stats EXCEPT ![outcome] = @ + 1]
         /\ e3Failures' =
              IF outcome = "errors" THEN e3Failures + 1 ELSE e3Failures
    /\ UNCHANGED <<e3SkipExisting, e3Pc, e3I>>
    /\ UNCHANGED notE3Vars

\* promises.slice(i, i + BATCH_SIZE), as the set of the positions it takes.
PromiseSlice(i) == {j \in 1..Len(e3Task) : j >= i /\ j < i + BATCH_SIZE}

\* One turn of the batch loop: Promise.all resolves once every promise of
\* the slice has, and the loop advances.
AwaitBatch ==
    /\ e3Pc = "batch"
    /\ e3I <= Len(e3Task)
    /\ \A j \in PromiseSlice(e3I) : e3Task[j] = "finished"
    /\ e3I' = e3I + BATCH_SIZE
    /\ UNCHANGED <<e3SkipExisting, e3Pc, e3Task, e3Stats, e3Failures>>
    /\ UNCHANGED notE3Vars

\* The batch loop is over.
BatchesDone ==
    /\ e3Pc = "batch"
    /\ e3I > Len(e3Task)
    /\ e3Pc' = "done"
    /\ UNCHANGED <<e3SkipExisting, e3I, e3Task, e3Stats, e3Failures>>
    /\ UNCHANGED notE3Vars

---------------------------------------------------------------------------
(* IconExporter.ExportWithVariants of                                      *)
(* src/go-iconexporter/iconexporter/iconexporter.go: the goroutines it     *)
(* spawns, the two buffered channels and the totals it returns.  The       *)
(* goroutines differ only in what they send, so they are counted; a        *)
(* channel is the count of each value it holds, since the totals do not    *)
(* depend on the order of the values.                                      *)

\* The state of the exporter while another specification runs.
GoIdle ==
    /\ goConfig = <<>>
    /\ goSizes = <<>>
    /\ goColors = <<>>
    /\ goLoadable = {}
    /\ goPresent = {}
    /\ goFailingSizes = {}
    /\ goPc = "unused"
    /\ goCi = 0
    /\ goIi = 0
    /\ goSpawned = <<>>
    /\ goErrBlocked = 0
    /\ goResBlocked = <<>>
    /\ goErrorsChan = 0
    /\ goResultsChan = <<>>
    /\ goClosed = FALSE
    /\ goTotalProcessed = 0
    /\ goTotalErrors = 0
    /\ goSaveFailures = 0

\* make(chan error, 100) and make(chan int, 100)
ChanCapacity == 100

\* How many sizes a call is given at most, and how many saveImage calls of a
\* run fail.
MaxGoSizes      == 101
MaxSaveFailures == 1

\* The values processVariant can return as successCount.
SuccessCounts == 0..2

\* A channel of int that holds nothing.
EmptyChan == [v \in SuccessCounts |-> 0]

\* len(ch) of a channel of int.
ChanLen(ch) == ch[0] + ch[1] + ch[2]

\* The counter of the WaitGroup: the goroutines that have not called Done.
WaitGroupCounter ==
    goSpawned.failing + goSpawned.working + goErrBlocked
        + ChanLen(goResBlocked)

\* The sizes and the environment of a call.  The long list of sizes is
\* given for one collection and one icon.
GoInit ==
    /\ goConfig \in [Collections   : {<<T_mdi>>, <<T_fa, T_mdi>>},
                     IconsToExport : {<<T_home>>, <<T_home, T_ghost>>},
                     OutputFormats : {<<T_svg>>, <<T_svg, T_png>>}]
    /\ goSizes \in {[k \in 1..n |-> <<k, k>>] : n \in {1, 2, MaxGoSizes}}
    /\ Len(goSizes) > 2 =>
          /\ goConfig.Collections = <<T_mdi>>
          /\ goConfig.IconsToExport = <<T_home>>
    /\ goColors = <<T_red>>
    /\ goLoadable = {T_mdi}
    /\ goPresent = {T_home}
    /\ goFailingSizes \in {{}, {1}, 1..Len(goSizes)}
    /\ goPc = "start"
    /\ goCi = 0
    /\ goIi = 0
    /\ goSpawned = [failing |-> 0, working |-> 0]
    /\ goErrBlocked = 0
    /\ goResBlocked = EmptyChan
    /\ goErrorsChan = 0
    /\ goResultsChan = EmptyChan
    /\ goClosed = FALSE
    /\ goTotalProcessed = 0
    /\ goTotalErrors = 0
    /\ goSaveFailures = 0

\* ExportWithVariants up to its loop: the output directory is created, or
\* the call returns the error.
EnsureOutputDir ==
    /\ goPc = "start"
    /\ \E ok \in BOOLEAN :
         /\ goPc' = IF ok THEN "collection" ELSE "failed"
         /\ goCi' = IF ok THEN 1 ELSE goCi
    /\ UNCHANGED <<goConfig, goSizes, goColors, goLoadable, goPresent,
                   goFailingSizes, goIi, goSpawned, goErrBlocked,
                   goResBlocked, goErrorsChan, goResultsChan, goClosed,
                   goTotalProcessed, goTotalErrors, goSaveFailures>>
    /\ UNCHANGED notGoVars

\* One turn of the loop over the collections up to its loop over the
\* icons; after the last collection the goroutine that waits for the
\* WaitGroup is started and the results are read.
LoadCollectionData ==
    /\ goPc = "collection"
    /\ IF goCi > Len(goConfig.Collections)
       THEN /\ goPc' = "results"
            /\ UNCHANGED <<goCi, goIi>>
       ELSE IF goConfig.Collections[goCi] \in goLoadable
       THEN /\ goPc' = "icon"
            /\ goIi' = 1
            /\ UNCHANGED goCi
       ELSE /\ goCi' = goCi + 1
            /\ UNCHANGED <<goPc, goIi>>
    /\ UNCHANGED <<goConfig, goSizes, goColors, goLoadable, goPresent,
                   goFailingSizes, goSpawned, goErrBlocked, goResBlocked,
                   goErrorsChan, goResultsChan, goClosed, goTotalProcessed,
                   goTotalErrors, goSaveFailures>>
    /\ UNCHANGED notGoVars

\* What a missing icon adds to totalErrors.
MissingIconErrorsGo(sizes, colors, formats) ==
    Len(sizes) * Len(colors) * Len(formats)

\* One turn of the loop over the icons: a missing icon is counted as
\* errors; for an icon of the collection one goroutine is started for each
\* size and color.
SpawnVariants ==
    /\ goPc = "icon"
    /\ IF goIi > Len(goConfig.IconsToExport)
       THEN /\ goCi' = goCi + 1
            /\ goPc' = "collection"
            /\ UNCHANGED <<goIi, goSpawned, goTotalErrors>>
       ELSE /\ goIi' = goIi + 1
            /\ UNCHANGED <<goCi, goPc>>
            /\ IF goConfig.IconsToExport[goIi] \in goPresent
               THEN /\ goSpawned' =
                         [failing |-> goSpawned.failing
                              + Cardinality(goFailingSizes) * Len(goColors),
                          working |-> goSpawned.working
                              + (Len(goSizes) - Cardinality(goFailingSizes))
                                  * Len(goColors)]
                    /\ UNCHANGED goTotalErrors
               ELSE /\ goTotalErrors' = goTotalErrors
                         + MissingIconErrorsGo(goSizes, goColors,
                                               goConfig.OutputFormats)
                    /\ UNCHANGED goSpawned
    /\ UNCHANGED <<goConfig, goSizes, goColors, goLoadable, goPresent,
                   goFailingSizes, goErrBlocked, goResBlocked, goErrorsChan,
                   goResultsChan, goClosed, goTotalProcessed,
                   goSaveFailures>>
    /\ UNCHANGED notGoVars

\* A goroutine whose folder cannot be created: processVariant returns the
\* error and the goroutine sends it, or blocks when errorsChan is full.
ProcessVariantFails ==
    /\ goSpawned.failing > 0
    /\ goSpawned' = [goSpawned EXCEPT !.failing = @ - 1]
    /\ IF goErrorsChan < ChanCapacity
       THEN /\ goErrorsChan' = goErrorsChan + 1
            /\ UNCHANGED goErrBlocked
       ELSE /\ goErrBlocked' = goErrBlocked + 1
            /\ UNCHANGED goErrorsChan
    /\ UNCHANGED <<goConfig, goSizes, goColors, goLoadable, goPresent,
                   goFailingSizes, goPc, goCi, goIi, goResBlocked,
                   goResultsChan, goClosed, goTotalProcessed, goTotalErrors,
                   goSaveFailures>>
    /\ UNCHANGED notGoVars

\* A goroutine whose folder exists: processVariant saves every format,
\* counts the saves that succeed, and the goroutine sends the count, or
\* blocks when resultsChan is full.
ProcessVariant ==
    /\ goSpawned.working > 0
    /\ goSpawned' = [goSpawned EXCEPT !.working = @ - 1]
    /\ \E failed \in {f \in 0..1 : goSaveFailures + f <= MaxSaveFailures} :
         /\ goSaveFailures' = goSaveFailures + failed
         /\ \E saved \in {Len(goConfig.OutputFormats) - failed} :
              IF ChanLen(goResultsChan) < ChanCapacity
              THEN /\ goResultsChan' =
                        [goResultsChan EXCEPT ![saved] = @ + 1]
                   /\ UNCHANGED goResBlocked
              ELSE /\ goResBlocked' =
                        [goResBlocked EXCEPT ![saved] = @ + 1]
                   /\ UNCHANGED goResultsChan
    /\ UNCHANGED <<goConfig, goSizes, goColors, goLoadable, goPresent,
                   goFailingSizes, goPc, goCi, goIi, goErrBlocked,
                   goErrorsChan, goClosed, goTotalProcessed, goTotalErrors>>
    /\ UNCHANGED notGoVars

\* A blocked send completes once its channel has room.
SendCompletes ==
    /\ \E ch \in {"errors", "results"} :
         IF ch = "errors"
         THEN /\ goErrBlocked > 0
              /\ goErrorsChan < ChanCapacity
              /\ goErrBlocked' = goErrBlocked - 1
              /\ goErrorsChan' = goErrorsChan + 1
              /\ UNCHANGED <<goResBlocked, goResultsChan>>
         ELSE /\ ChanLen(goResultsChan) < ChanCapacity
              /\ \E v \in SuccessCounts :
                   /\ goResBlocked[v] > 0
                   /\ goResBlocked' = [goResBlocked EXCEPT ![v] = @ - 1]
                   /\ goResultsChan' = [goResultsChan EXCEPT ![v] = @ + 1]
              /\ UNCHANGED <<goErrBlocked, goErrorsChan>>
    /\ UNCHANGED <<goConfig, goSizes, goColors, goLoadable, goPresent,
                   goFailingSizes, goPc, goCi, goIi, goSpawned, goClosed,
                   goTotalProcessed, goTotalErrors, goSaveFailures>>
    /\ UNCHANGED notGoVars

\* The goroutine of lines 510-514: once every goroutine has called Done it
\* closes both channels.
CloseChannels ==
    /\ goPc \in {"results", "errors"}
    /\ ~goClosed
    /\ WaitGroupCounter = 0
    /\ goClosed' = TRUE
    /\ UNCHANGED <<goConfig, goSizes, goColors, goLoadable, goPresent,
                   goFailingSizes, goPc, goCi, goIi, goSpawned,
                   goErrBlocked, goResBlocked, goErrorsChan, goResultsChan,
                   goTotalProcessed, goTotalErrors, goSaveFailures>>
    /\ UNCHANGED notGoVars

\* for success := range resultsChan: a value is received and added, and
\* the loop ends once the channel is closed and empty.
RangeResults ==
    /\ goPc = "results"
    /\ IF ChanLen(goResultsChan) > 0
       THEN \E v \in SuccessCounts :
              /\ goResultsChan[v] > 0
              /\ goResultsChan' = [goResultsChan EXCEPT ![v] = @ - 1]
              /\ goTotalProcessed' = goTotalProcessed + v
              /\ UNCHANGED goPc
       ELSE /\ goClosed
            /\ goPc' = "errors"
            /\ UNCHANGED <<goResultsChan, goTotalProcessed>>
    /\ UNCHANGED <<goConfig, goSizes, goColors, goLoadable, goPresent,
                   goFailingSizes, goCi, goIi, goSpawned, goErrBlocked,
                   goResBlocked, goErrorsChan, goClosed, goTotalErrors,
                   goSaveFailures>>
    /\ UNCHANGED notGoVars

\* for range errorsChan: an error is received and counted; once the channel
\* is closed and empty the summary is printed and returned.
RangeErrors ==
    /\ goPc = "errors"
    /\ IF goErrorsChan > 0
       THEN /\ goErrorsChan' = goErrorsChan - 1
            /\ goTotalErrors' = goTotalErrors + 1
            /\ UNCHANGED goPc
       ELSE /\ goClosed
            /\ goPc' = "returned"
            /\ UNCHANGED <<goErrorsChan, goTotalErrors>>
    /\ UNCHANGED <<goConfig, goSizes, goColors, goLoadable, goPresent,
                   goFailingSizes, goCi, goIi, goSpawned, goErrBlocked,
                   goResBlocked, goResultsChan, goClosed, goTotalProcessed,
                   goSaveFailures>>
    /\ UNCHANGED notGoVars

---------------------------------------------------------------------------
(* IconExporter.exportIcons of the sharp-based exporter of                 *)
(* src/export-icons-31.js: the loop over the collections and the summary.  *)

\* The state of the exporter while another specification runs.
SharpIdle ==
    /\ shConfig = <<>>
    /\ shVariants = <<>>
    /\ shLoadable = {}
    /\ shPc = "unused"
    /\ shCi = 0
    /\ shTotalProcessed = 0
    /\ shTotalErrors = 0
    /\ shSummaries = <<>>
    /\ shFailures = 0

\* How many collections a configuration names, and how many files of a run
\* fail.
MaxSharpCollections == 2
MaxSharpFailures    == 1

\* The sequences of at most n members of a set.
SeqsUpTo(S, n) == UNION {[1..k -> S] : k \in 0..n}

\* const totalIconsAndVariants =
\*     icons.length * sizes.length * colors.length * numFormats
TotalIconsAndVariants(cfg, variantArgs) ==
    Len(cfg.iconsToExport) * Len(variantArgs.sizes)
        * Len(variantArgs.colors) * Len(cfg.exportFormats)

\* The configuration and the variants of a call.
SharpInit ==
    /\ shConfig \in [collections   : SeqsUpTo({T_mdi, T_fa, T_ghost},
                                              MaxSharpCollections),
                     iconsToExport : {<<T_home>>, <<T_home, T_star>>},
                     exportFormats : {<<T_svg>>, <<T_svg, T_png>>}]
    /\ shVariants = [sizes |-> <<24>>, colors |-> <<T_red>>]
    /\ shLoadable = {T_mdi, T_fa}
    /\ shPc = "start"
    /\ shCi = 0
    /\ shTotalProcessed = 0
    /\ shTotalErrors = 0
    /\ shSummaries = <<>>
    /\ shFailures = 0

\* exportIcons up to its loop: the output directory is created, or the
\* error is rethrown.
SharpEnsureOutputDir ==
    /\ shPc = "start"
    /\ \E ok \in BOOLEAN :
         /\ shPc' = IF ok THEN "collection" ELSE "threw"
         /\ shCi' = IF ok THEN 1 ELSE shCi
    /\ UNCHANGED <<shConfig, shVariants, shLoadable, shTotalProcessed,
                   shTotalErrors, shSummaries, shFailures>>
    /\ UNCHANGED notSharpVars

\* One turn of the loop over the collections: the collection is loaded and
\* processed, the totals are raised by its results, and
\* _printExportSummary is called; a collection that cannot be loaded makes
\* exportIcons rethrow.
SharpProcessCollection ==
    /\ shPc = "collection"
    /\ shCi <= Len(shConfig.collections)
    /\ IF shConfig.collections[shCi] \notin shLoadable
       THEN /\ shPc' = "threw"
            /\ UNCHANGED <<shCi, shTotalProcessed, shTotalErrors,
                           shSummaries, shFailures>>
       ELSE \E total \in {TotalIconsAndVariants(shConfig, shVariants)} :
            \E failed \in 0..(MaxSharpFailures - shFailures) :
              /\ shTotalProcessed' = shTotalProcessed + (total - failed)
              /\ shTotalErrors' = shTotalErrors + failed
              /\ shFailures' = shFailures + failed
              /\ shSummaries' =
                   Append(shSummaries,
                          [after     |-> shCi,
                           processed |-> shTotalProcessed + (total - failed),
                           errors    |-> shTotalErrors + failed,
                           total     |-> total])
              /\ shCi' = shCi + 1
              /\ UNCHANGED shPc
    /\ UNCHANGED <<shConfig, shVariants, shLoadable>>
    /\ UNCHANGED notSharpVars

\* The loop is over: exportIcons returns the totals.
SharpReturn ==
    /\ shPc = "collection"
    /\ shCi > Len(shConfig.collections)
    /\ shPc' = "returned"
    /\ UNCHANGED <<shConfig, shVariants, shLoadable, shCi, shTotalProcessed,
                   shTotalErrors, shSummaries, shFailures>>
    /\ UNCHANGED notSharpVars

---------------------------------------------------------------------------
(* IconExporter.exportIcons of the first exporter of                       *)
(* src/export-icons-31.js: exportSingleIcon and exportFormat.              *)

\* The state of the exporter while another specification runs.
SingleIdle ==
    /\ siConfig = <<>>
    /\ siIcons = <<>>
    /\ siPc = "unused"
    /\ siIi = 0
    /\ siFi = 0
    /\ siAttempted = <<>>
    /\ siStats = <<>>
    /\ siLog = <<>>
    /\ siFailures = 0

\* How many steps of a run fail.
MaxSingleFailures == 2

\* The collection is loaded and the icons to export are listed.
SingleInit ==
    /\ siConfig \in [formats : {<<T_svg>>, <<T_svg, T_png>>, <<T_png, T_svg>>,
                               <<T_svg, T_png, T_webp>>}]
    /\ siIcons \in {<<T_home>>, <<T_home, T_star>>}
    /\ siPc = "icon"
    /\ siIi = 1
    /\ siFi = 0
    /\ siAttempted = <<>>
    /\ siStats = [processed |-> 0, errors |-> 0]
    /\ siLog = <<>>
    /\ siFailures = 0

\* exportSingleIcon up to its loop: the SVG is generated, or the error is
\* counted and the call returns.
ExportSingleIcon ==
    /\ siPc = "icon"
    /\ siIi <= Len(siIcons)
    /\ \E fails \in {f \in BOOLEAN : f => siFailures < MaxSingleFailures} :
         IF fails
         THEN /\ siStats' = [siStats EXCEPT !.errors = @ + 1]
              /\ siFailures' = siFailures + 1
              /\ siLog' = Append(siLog, [generated |-> FALSE,
                                         attempted |-> <<>>,
                                         failed    |-> 0,
                                         errors    |-> 1])
              /\ siIi' = siIi + 1
              /\ UNCHANGED <<siPc, siFi, siAttempted>>
         ELSE /\ siPc' = "format"
              /\ siFi' = 1
              /\ siAttempted' = <<>>
              /\ UNCHANGED <<siStats, siFailures, siLog, siIi>>
    /\ UNCHANGED <<siConfig, siIcons>>
    /\ UNCHANGED notSingleVars

\* One turn of the loop over the formats, and what follows it in
\* exportSingleIcon: exportFormat writes the file, or logs its error and
\* rethrows it to the catch of exportSingleIcon, which counts it and
\* returns; after the last format the icon is counted as processed.
ExportFormat ==
    /\ siPc = "format"
    /\ siFi <= Len(siConfig.formats)
    /\ \E fails \in {f \in BOOLEAN : f => siFailures < MaxSingleFailures} :
       \E tried \in {Append(siAttempted, siConfig.formats[siFi])} :
       \E next \in {IF fails
                    THEN Len(siConfig.formats) + 1
                    ELSE siFi + 1} :
         /\ siFailures' = IF fails THEN siFailures + 1 ELSE siFailures
         /\ siStats' =
              [siStats EXCEPT
                 !.errors = IF fails THEN @ + 1 ELSE @,
                 !.processed =
                     IF ~fails /\ next > Len(siConfig.formats)
                     THEN @ + 1 ELSE @]
         /\ IF next > Len(siConfig.formats)
            THEN /\ siLog' = Append(siLog,
                                    [generated |-> TRUE,
                                     attempted |-> tried,
                                     failed    |-> IF fails THEN 1 ELSE 0,
                                     errors    |-> IF fails THEN 1 ELSE 0])
                 /\ siIi' = siIi + 1
                 /\ siPc' = "icon"
                 /\ siFi' = 0
                 /\ siAttempted' = <<>>
            ELSE /\ siFi' = next
                 /\ siAttempted' = tried
                 /\ UNCHANGED <<siLog, siIi, siPc>>
    /\ UNCHANGED <<siConfig, siIcons>>
    /\ UNCHANGED notSingleVars

\* The loop over the icons is over: exportIcons prints the summary.
SinglePrintSummary ==
    /\ siPc = "icon"
    /\ siIi > Len(siIcons)
    /\ siPc' = "done"
    /\ UNCHANGED <<siConfig, siIcons, siIi, siFi, siAttempted, siStats,
                   siLog, siFailures>>
    /\ UNCHANGED notSingleVars

---------------------------------------------------------------------------
(* createExporter of src/unnamed/part_005, called with customSizes.        *)

\* The state of the constructor while another specification runs.
CustomIdle ==
    /\ csConfig = P5_DEFAULT_CONFIG
    /\ csPc = "unused"
    /\ csSizeType = "unknown"

\* How many sizes the customSizes of a call has.
MaxCustomSizes == 3

\* customSizesConfig.customSizes of src/app/examples.js
ExampleCustomSizes ==
    <<SquareSize(24), SquareSize(32), SquareSize(48),
      RectSize(300, 150), RectSize(400, 200)>>

\* The configurations createExporter is called with: customSizesConfig of
\* the examples, and the short lists of numbers and objects.
CustomInit ==
    /\ csConfig \in
         {[P5_DEFAULT_CONFIG EXCEPT !.collections = <<T_mdi>>,
                                    !.hasCustomSizes = TRUE,
                                    !.customSizes = sz] :
            sz \in {ExampleCustomSizes}
                \cup SeqsUpTo({SquareSize(24), SquareSize(0),
                               RectSize(300, 150), RectSize(300, 0)},
                              MaxCustomSizes)}
    /\ csPc = "input"
    /\ csSizeType = "unknown"

\* createExporter(config): the constructor validates the configuration and
\* sets up the sizes, or throws.
CreateCustomExporter ==
    /\ csPc = "input"
    /\ IF P5Constructs(csConfig)
       THEN /\ csPc' = "constructed"
            /\ csSizeType' = SetupSizeType(csConfig)
       ELSE /\ csPc' = "threw"
            /\ UNCHANGED csSizeType
    /\ UNCHANGED csConfig
    /\ UNCHANGED notCustomVars

---------------------------------------------------------------------------
(* IconExporter.processCollectionWithVariants of                           *)
(* src/export-icons-10-gemini.js and the paths of the files it writes.     *)
(* sanitizeString and applyCase of this file have the bodies of those of   *)
(* src/unnamed/part_000.                                                   *)

\* DEFAULT_CONFIG of src/export-icons-10-gemini.js
GEMINI_DEFAULT_CONFIG ==
    [collections     |-> << >>,
     outputDir       |-> T_icons,
     defaultSize     |-> 48,
     defaultColor    |-> T_red,
     fileNaming      |-> [pattern  |-> T_collection \o <<"-">> \o T_icon,
                          sanitize |-> TRUE,
                          case     |-> "kebab"],
     folderStructure |-> [enabled      |-> TRUE,
                          pattern      |-> T_collection,
                          groupBySize  |-> FALSE,
                          groupByColor |-> FALSE],
     exportFormats   |-> <<T_svg>>]

\* The state of the exporter while another specification runs.
GeminiIdle ==
    /\ gmConfig = GEMINI_DEFAULT_CONFIG
    /\ gmIcons = <<>>
    /\ gmPc = "unused"
    /\ gmIi = 0
    /\ gmProcessed = 0
    /\ gmPaths = <<>>
    /\ gmFiles = {}

\* removeHyphensAndNumbersFromIconName(iconName)
RemoveHyphensAndNumbersFromIconName(iconName) ==
    RemoveChars(RemoveChars(iconName, {"-"}), DigitChars)

\* generateBaseFileName(collection, iconName, { size, color })
GenerateBaseFileName(cfg, collection, iconName, size, color) ==
    LET cleanIconName == RemoveHyphensAndNumbersFromIconName(iconName)
        a == ReplaceFirst(cfg.fileNaming.pattern, T_collection, collection)
        b == ReplaceFirst(a, T_icon, cleanIconName)
        c == ReplaceFirst(b, T_size, NumToString(size))
        d == ReplaceFirst(c, T_color,
                          IF color = Empty THEN T_default ELSE color)
    IN ApplyCase(SanitizeString(d, cfg), cfg.fileNaming.case)

\* generateFolderPath(collection, { size, color })
GeminiFolderPath(cfg, collection, size, color) ==
    LET a == ReplaceFirst(cfg.folderStructure.pattern, T_collection,
                          collection)
        b == ReplaceFirst(a, T_size, NumToString(size))
        c == ReplaceFirst(b, T_color,
                          IF color = Empty THEN T_default ELSE color)
        full0 == PathJoin(cfg.outputDir, c)
        full1 == IF cfg.folderStructure.groupBySize
                 THEN PathJoin(full0, T_sizePrefix \o NumToString(size))
                 ELSE full0
        full2 == IF cfg.folderStructure.groupByColor /\ color # Empty
                 THEN PathJoin(full1,
                               T_colorPrefix \o SanitizeString(color, cfg))
                 ELSE full1
    IN IF ~cfg.folderStructure.enabled THEN cfg.outputDir ELSE full2

\* The path saveIconFile writes: path.join(folderPath,
\* `${baseFileName}.${format}`).
IconFilePath(cfg, collection, iconName, size, color, format) ==
    PathJoin(GeminiFolderPath(cfg, collection, size, color),
             GenerateBaseFileName(cfg, collection, iconName, size, color)
                 \o <<".">> \o format)

\* How long an icon name is.
MaxIconNameLen == 3

\* The icon names of a collection: letters, digits and hyphens, no hyphen
\* first or last.
CollectionIconNames ==
    {n \in SeqsUpTo({"a", "b", "1", "-"}, MaxIconNameLen) :
        Len(n) > 0 /\ n[1] # "-" /\ n[Len(n)] # "-"}

\* The configuration, and two distinct icons of the collection.
GeminiInit ==
    /\ gmConfig \in
         {[GEMINI_DEFAULT_CONFIG EXCEPT !.collections = <<T_mdi>>,
                                        !.fileNaming.pattern = p,
                                        !.fileNaming.case = k] :
            p \in {T_collection \o <<"-">> \o T_icon, T_patIconSize},
            k \in {"kebab", "pascal"}}
    /\ gmIcons \in {<<a, b>> : a, b \in CollectionIconNames}
    /\ gmIcons[1] # gmIcons[2]
    /\ gmPc = "icon"
    /\ gmIi = 1
    /\ gmProcessed = 0
    /\ gmPaths = <<>>
    /\ gmFiles = {}

\* One turn of the loop over the icons, for the default size and color:
\* processIcon writes the file of each format and the variant is counted.
GeminiProcessIcon ==
    /\ gmPc = "icon"
    /\ gmIi <= Len(gmIcons)
    /\ \E filePath \in {IconFilePath(gmConfig, gmConfig.collections[1],
                                     gmIcons[gmIi], gmConfig.defaultSize,
                                     gmConfig.defaultColor, T_svg)} :
         /\ gmPaths' = Append(gmPaths, filePath)
         /\ gmFiles' = gmFiles \cup {filePath}
    /\ gmProcessed' = gmProcessed + Len(gmConfig.exportFormats)
    /\ gmIi' = gmIi + 1
    /\ UNCHANGED <<gmConfig, gmIcons, gmPc>>
    /\ UNCHANGED notGeminiVars

\* The loop is over: processCollectionWithVariants returns its counts.
GeminiReturn ==
    /\ gmPc = "icon"
    /\ gmIi > Len(gmIcons)
    /\ gmPc' = "done"
    /\ UNCHANGED <<gmConfig, gmIcons, gmIi, gmProcessed, gmPaths, gmFiles>>
    /\ UNCHANGED notGeminiVars

\* The state of the exporters modelled before this part, while one of this
\* part runs.
EarlierIdle ==
    /\ RunIdle /\ PathIdle /\ CtorIdle /\ P5Idle /\ LaterIdle

\* The state of the exporters of this part, while another specification
\* runs.
LastIdle ==
    /\ CompleteIdle /\ E3Idle /\ GoIdle /\ SharpIdle /\ SingleIdle
    /\ CustomIdle /\ GeminiIdle

---------------------------------------------------------------------------
(* The specifications.                                                     *)

\* A run of exportWithVariants of src/unnamed/part_000.
Init == RunInit /\ PathIdle /\ CtorIdle /\ P5Idle /\ LaterIdle /\ LastIdle
Next ==
    \/ StartExport
    \/ LoadCollection
    \/ ValidateIcon
    \/ FinishCollection
    \/ GenerateSvgStep
    \/ SaveFormat
    \/ ProcessIconReturn
    \/ Summarize
Spec == Init /\ [][Next]_vars

\* Calls of generateFolderPath of src/unnamed/part_000.
InitPath == PathInit /\ RunIdle /\ CtorIdle /\ P5Idle /\ LaterIdle /\ LastIdle
NextPath == CallGenerateFolderPath
SpecPath == InitPath /\ [][NextPath]_vars

\* Calls of createExporter of src/unnamed/part_000.
InitCtor == CtorInit /\ RunIdle /\ PathIdle /\ P5Idle /\ LaterIdle /\ LastIdle
NextCtor == CreateExporter
SpecCtor == InitCtor /\ [][NextCtor]_vars

\* A run of the exporter of src/unnamed/part_005.
InitP5 == P5Init /\ RunIdle /\ PathIdle /\ CtorIdle /\ LaterIdle /\ LastIdle
NextP5 ==
    \/ P5ExportIcons
    \/ P5ExportWithVariants
    \/ P5LoadCollection
    \/ P5ValidateIcon
    \/ P5ProcessIcon
    \/ P5FinishCollection
    \/ P5Summarize
SpecP5 == InitP5 /\ [][NextP5]_vars

\* Calls of sanitizeString and applyCase of src/unnamed/part_000.
InitText ==
    /\ TextInit /\ RunIdle /\ PathIdle /\ CtorIdle /\ P5Idle
    /\ NameIdle /\ P6Idle /\ SvgIdle /\ ColorIdle /\ FsIdle
    /\ LastIdle
NextText ==
    \/ CallSanitizeString
    \/ CallApplyCase
SpecText == InitText /\ [][NextText]_vars

\* Calls of generateFileName and generateFolderPath of src/unnamed/part_000.
InitName ==
    /\ NameInit /\ RunIdle /\ PathIdle /\ CtorIdle /\ P5Idle
    /\ TextIdle /\ P6Idle /\ SvgIdle /\ ColorIdle /\ FsIdle
    /\ LastIdle
NextName ==
    \/ CallGenerateFileName
    \/ CallGenerateFolderPathOfName
SpecName == InitName /\ [][NextName]_vars

\* Repeated calls of generateFileName of src/unnamed/part_006.
InitP6 ==
    /\ P6Init /\ RunIdle /\ PathIdle /\ CtorIdle /\ P5Idle
    /\ TextIdle /\ NameIdle /\ SvgIdle /\ ColorIdle /\ FsIdle
    /\ LastIdle
NextP6 ==
    \/ P6Tick
    \/ P6GenerateFileName
SpecP6 == InitP6 /\ [][NextP6]_vars

\* Calls of generateSvg of src/unnamed/part_000.
InitSvg ==
    /\ SvgInit /\ RunIdle /\ PathIdle /\ CtorIdle /\ P5Idle
    /\ TextIdle /\ NameIdle /\ P6Idle /\ ColorIdle /\ FsIdle
    /\ LastIdle
NextSvg == CallGenerateSvg
SpecSvg == InitSvg /\ [][NextSvg]_vars

\* Calls of applyColorToSvgBody of src/export-icons-31.js.
InitColor ==
    /\ ColorInit /\ RunIdle /\ PathIdle /\ CtorIdle /\ P5Idle
    /\ TextIdle /\ NameIdle /\ P6Idle /\ SvgIdle /\ FsIdle
    /\ LastIdle
NextColor == CallApplyColorToSvgBody
SpecColor == InitColor /\ [][NextColor]_vars

\* A call of processCollectionWithVariants of src/unnamed/part_000 and the
\* files it writes.
InitFs ==
    /\ FsInit /\ RunIdle /\ PathIdle /\ CtorIdle /\ P5Idle
    /\ TextIdle /\ NameIdle /\ P6Idle /\ SvgIdle /\ ColorIdle
    /\ LastIdle
NextFs ==
    \/ FsValidateIcon
    \/ FsGenerateSvg
    \/ FsSaveFormat
    \/ FsProcessIconReturn
    \/ FsReturn
SpecFs == InitFs /\ [][NextFs]_vars

\* A run of exportAll of src/icon-exporter-complete.js.
InitComplete ==
    /\ CompleteInit /\ EarlierIdle /\ E3Idle /\ GoIdle /\ SharpIdle /\ SingleIdle
    /\ CustomIdle
    /\ GeminiIdle
NextComplete ==
    \/ Initialize
    \/ ProcessCollection
    \/ DispatchBatch
    \/ ExportIcon
    \/ BatchSettled
    \/ CollectionProcessed
    \/ PrintSummary
    \/ CreateSummaryFile
SpecComplete == InitComplete /\ [][NextComplete]_vars

\* The processIcon calls of a collection of src/export-icons-3.js.
InitE3 ==
    /\ E3Init /\ EarlierIdle /\ CompleteIdle /\ GoIdle /\ SharpIdle /\ SingleIdle
    /\ CustomIdle
    /\ GeminiIdle
NextE3 ==
    \/ MapProcessIcon
    \/ ProcessIcon3
    \/ AwaitBatch
    \/ BatchesDone
SpecE3 == InitE3 /\ [][NextE3]_vars

\* A call of ExportWithVariants of the Go exporter.
InitGo ==
    /\ GoInit /\ EarlierIdle /\ CompleteIdle /\ E3Idle /\ SharpIdle /\ SingleIdle
    /\ CustomIdle
    /\ GeminiIdle
NextGo ==
    \/ EnsureOutputDir
    \/ LoadCollectionData
    \/ SpawnVariants
    \/ ProcessVariantFails
    \/ ProcessVariant
    \/ SendCompletes
    \/ CloseChannels
    \/ RangeResults
    \/ RangeErrors
SpecGo == InitGo /\ [][NextGo]_vars

\* The same call under the Go scheduler, which runs a goroutine that can
\* take a step.
SpecGoFair == SpecGo /\ WF_vars(NextGo)

\* A call of exportIcons of the sharp-based exporter of
\* src/export-icons-31.js.
InitSharp ==
    /\ SharpInit /\ EarlierIdle /\ CompleteIdle /\ E3Idle /\ GoIdle /\ SingleIdle
    /\ CustomIdle
    /\ GeminiIdle
NextSharp ==
    \/ SharpEnsureOutputDir
    \/ SharpProcessCollection
    \/ SharpReturn
SpecSharp == InitSharp /\ [][NextSharp]_vars

\* A run of the first exporter of src/export-icons-31.js over the icons of
\* a collection.
InitSingle ==
    /\ SingleInit /\ EarlierIdle /\ CompleteIdle /\ E3Idle /\ GoIdle
    /\ SharpIdle
    /\ CustomIdle
    /\ GeminiIdle
NextSingle ==
    \/ ExportSingleIcon
    \/ ExportFormat
    \/ SinglePrintSummary
SpecSingle == InitSingle /\ [][NextSingle]_vars

\* Calls of createExporter of src/unnamed/part_005 with customSizes.
InitCustom ==
    /\ CustomInit /\ EarlierIdle /\ CompleteIdle /\ E3Idle /\ GoIdle
    /\ SharpIdle /\ SingleIdle
    /\ GeminiIdle
NextCustom == CreateCustomExporter
SpecCustom == InitCustom /\ [][NextCustom]_vars

\* A call of processCollectionWithVariants of src/export-icons-10-gemini.js
\* with two icons.
InitGemini ==
    /\ GeminiInit /\ EarlierIdle /\ CompleteIdle /\ E3Idle /\ GoIdle
    /\ SharpIdle /\ SingleIdle /\ CustomIdle
NextGemini ==
    \/ GeminiProcessIcon
    \/ GeminiReturn
SpecGemini == InitGemini /\ [][NextGemini]_vars

---------------------------------------------------------------------------
(* The properties.                                                         *)

RECURSIVE SumOver(_, _)
\* The sum of f[k] for k in 1..n.
SumOver(f, n) == IF n = 0 THEN 0 ELSE f[n] + SumOver(f, n - 1)

\* The number of icons of a run: the icons to process, summed over the
\* collections of the configuration.
TotalIcons(cfg) ==
    SumOver([k \in 1..Len(cfg.collections) |->
                Len(GetIconsToProcess(cfg, cfg.collections[k]))],
            Len(cfg.collections))

\* No icon to process is absent from its collection's data.
NoIconMissing(cfg) ==
    \A k \in 1..Len(cfg.collections) :
        \A icon \in SeqRange(GetIconsToProcess(cfg, cfg.collections[k])) :
            icon \in SeqRange(IconKeys(cfg.collections[k]))

\* C1: when exportWithVariants returns (the root directory was created and
\* every collection loaded) and no requested icon is missing, processed +
\* errors is the number of icons times |sizes| x |colors| x |formats|,
\* whichever renders, conversions and writes failed.
C1_CrossProductCount ==
    (pc = "done" /\ NoIconMissing(config)) =>
        /\ result.returned
        /\ result.processed + result.errors
             = TotalIcons(config) * Len(Sizes) * Len(Colors) * Len(Formats)

\* A run over two collections and two sizes, colors and formats that
\* returned with successes and failures.
C1_Witness ==
    /\ pc = "done"
    /\ NoIconMissing(config)
    /\ Len(config.collections) = 2
    /\ Len(Sizes) = 2 /\ Len(Colors) = 2 /\ Len(Formats) = 2
    /\ result.processed > 0
    /\ result.errors > 0

\* The step that meets an icon absent from the collection data.
AtMissingIcon ==
    /\ pc = "icon"
    /\ ii <= Len(icons)
    /\ icons[ii] \notin SeqRange(IconKeys(CurrentCollection))

\* The run of the example: icons [A, B] with B missing, formats [svg, png],
\* one size and one color.
C2_ExampleRun ==
    /\ config.collections = <<T_mdi>>
    /\ config.iconsToExport = <<T_home, T_ghost>>
    /\ Formats = <<T_svg, T_png>>
    /\ Len(Sizes) = 1
    /\ Len(Colors) = 1

\* C2: an icon absent from the collection data adds |sizes| x |colors| x
\* |formats| to errors, with no render, conversion, folder or write, without
\* raising, and the run goes on with the next icon; in the example run the
\* two errors of B are counted and A's two formats make up the rest.
C2_MissingIconSkipped ==
    /\ [][AtMissingIcon =>
            /\ errors' = errors + Len(Sizes) * Len(Colors) * Len(Formats)
            /\ processed' = processed
            /\ io' = io
            /\ call' = call
            /\ pc' = "icon"
            /\ ii' = ii + 1]_vars
    /\ []((pc = "done" /\ C2_ExampleRun) =>
            /\ result.errors >= 2
            /\ result.processed + result.errors = 4)

\* The example run returned processed == 2 and errors == 2.
C2_Witness ==
    /\ pc = "done"
    /\ C2_ExampleRun
    /\ result.processed = 2
    /\ result.errors = 2

\* C3: when generateSvg throws, processIcon catches it and returns errorCount
\* = number of formats and successCount = 0 with no folder created, nothing
\* converted and nothing written; the caller adds exactly that to errors,
\* leaves processed alone and goes on with the next (size, color).
C3_RenderFailureForfeitsFormats ==
    /\ [][(pc = "render" /\ lastOutcome' = "renderFailed") =>
            /\ pc' = "return"
            /\ errorCount' = Len(Formats)
            /\ successCount' = 0
            /\ call' = NoCall]_vars
    /\ [][(pc = "return" /\ lastOutcome = "renderFailed") =>
            /\ errors' = errors + Len(Formats)
            /\ processed' = processed
            /\ call' = NoCall
            /\ IF coli < Len(Colors)
               THEN pc' = "render" /\ coli' = coli + 1 /\ si' = si /\ ii' = ii
               ELSE IF si < Len(Sizes)
                    THEN pc' = "render" /\ coli' = 1 /\ si' = si + 1 /\ ii' = ii
                    ELSE pc' = "icon" /\ ii' = ii + 1]_vars

\* A failed render of a combination that has a next color to go on with.
C3_Witness ==
    /\ pc = "return"
    /\ lastOutcome = "renderFailed"
    /\ Len(Formats) = 2
    /\ errorCount = 2
    /\ coli < Len(Colors)

SaveFailures == {"mkdirFailed", "convertFailed", "writeFailed"}

\* C4: a failure of the folder creation, the conversion or the write of one
\* format adds exactly 1 to errorCount, does not leave processIcon, and the
\* loop goes on with the next format: when processIcon returns after a
\* successful render, every configured format was attempted, in order.
C4_FormatFailureIsolated ==
    /\ [][(pc = "format" /\ lastOutcome' \in SaveFailures) =>
            /\ errorCount' = errorCount + 1
            /\ successCount' = successCount
            /\ fi' = fi + 1
            /\ pc' = IF fi < Len(Formats) THEN "format" ELSE "return"]_vars
    /\ []((pc = "return" /\ svgContent = "rendered") => attempted = Formats)

\* The png failed and the webp after it was written.
C4_Witness ==
    /\ pc = "return"
    /\ Formats = <<T_png, T_webp>>
    /\ attempted = <<T_png, T_webp>>
    /\ errorCount = 1
    /\ successCount = 1
    /\ lastOutcome = "ok"

\* C5: a collection that fails to load does not make exportWithVariants
\* raise (the run goes on with the later collections).
C5_LoadFailureContained ==
    lastOutcome = "loadFailed" => pc # "raised"

\* C6: when the root output directory cannot be created the call raises,
\* and it has loaded no collection, rendered no icon, created no folder and
\* written no file; nothing more happens after the raise.
C6_RootDirFailureFatal ==
    lastOutcome = "rootDirFailed" =>
        /\ pc = "raised"
        /\ io = NoIo
        /\ call = NoCall
        /\ totalProcessed = 0 /\ processed = 0 /\ successCount = 0
        /\ ~result.returned
        /\ ~ENABLED Next

\* The root directory could not be created.
C6_Witness ==
    /\ lastOutcome = "rootDirFailed"
    /\ pc = "raised"

\* The violations of the configuration invariants, on the merged config.
ConfigViolation(cfg) ==
    \/ Len(cfg.collections) = 0
    \/ Len(cfg.formats) = 0
    \/ \E k \in 1..Len(cfg.formats) : cfg.formats[k] \notin VALID_OUTPUT_FORMATS
    \/ cfg.fileNaming.case \notin VALID_CASE_TYPES
    \/ cfg.defaultSize <= 0

\* C7: createExporter throws, and no exporter exists, for a configuration
\* with empty collections, empty formats, a format outside the vocabulary,
\* a case outside the enum, or a defaultSize that is not positive.
C7_InvalidConfigThrows ==
    (ctorPc # "input" /\ ConfigViolation(MergeConfig(DEFAULT_CONFIG, userConfig)))
        => (ctorPc = "threw" /\ ~exporter.exists)

\* The pairs (size, config.defaultColor) for every size of this.sizes.
P5AllSizesDefaultColor ==
    [k \in 1..Len(p5Sizes) |-> <<p5Sizes[k], p5Config.defaultColor>>]

P5TotalIcons ==
    SumOver([k \in 1..Len(p5Config.collections) |->
                Len(GetIconsToProcess(p5Config, p5Config.collections[k]))],
            Len(p5Config.collections))

\* C8 as stated: exportIcons() attempts each icon at one size, so that
\* processed + errors equals the number of icons.
C8_OneSizePerIcon ==
    (p5Pc = "done" /\ p5Entry = "exportIcons") =>
        p5Result.processed + p5Result.errors = P5TotalIcons

\* C8, amended: exportIcons() runs with every size of this.sizes
\* (config.customSizes when given, else the sizes of the preset named by
\* config.sizePreset) and the one color config.defaultColor: each existing
\* icon is attempted once per such size, in order, and when the call returns
\* processed + errors equals the number of icons times |this.sizes|.
C8_AllConfiguredSizes ==
    p5Entry = "exportIcons" =>
        /\ p5Sizes = IF p5Config.hasCustomSizes THEN p5Config.customSizes
                     ELSE PresetSizes(ToUpperCase(p5Config.sizePreset))
        /\ p5Variants.sizes = p5Sizes
        /\ p5Variants.colors = <<p5Config.defaultColor>>
        /\ (/\ p5Pc = "icon"
            /\ p5Ii >= 2
            /\ p5Icons[p5Ii - 1]
                 \in SeqRange(IconKeys(p5Config.collections[p5Ci])))
              => p5Attempts = P5AllSizesDefaultColor
        /\ p5Pc = "done" =>
              p5Result.processed + p5Result.errors
                 = P5TotalIcons * Len(p5Sizes)

\* exportIcons() with the SQUARE preset returned: three icons, nine sizes.
C8_Witness ==
    /\ p5Pc = "done"
    /\ p5Entry = "exportIcons"
    /\ ~p5Config.hasCustomSizes
    /\ p5Config.sizePreset = T_SQUARE
    /\ p5Config.defaultSize = 48
    /\ P5TotalIcons = 3
    /\ p5Result.processed + p5Result.errors = 27
    /\ p5Result.processed > 0

\* C9: with folderStructure.enabled false, generateFolderPath returns
\* exactly config.outputDir, whatever the pattern, the grouping flags, the
\* collection, the size, the color and the format.
C9_FlatLayout ==
    (fpPc = "returned" /\ ~fpConfig.folderStructure.enabled) =>
        fpResult = fpConfig.outputDir

\* A disabled folder structure with a pattern and every grouping flag set.
C9_Witness ==
    /\ fpPc = "returned"
    /\ ~fpConfig.folderStructure.enabled
    /\ fpConfig.folderStructure.pattern = T_patCollSize
    /\ fpConfig.folderStructure.groupBySize
    /\ fpConfig.folderStructure.groupByColor
    /\ fpConfig.folderStructure.groupByFormat
    /\ fpOptions.hasColor /\ fpOptions.color = T_hex
    /\ fpConfig.outputDir = T_icons
    /\ fpResult = T_icons

\* The segments of a path: its parts between '/', without '' and '.'.
PathSegments(path) ==
    SelectSeq(SplitOn(path, "/"), LAMBDA seg : seg # Empty /\ seg # DotSeg)

\* The grouping segments the call is to append, in their order.
ExpectedGroupSegments ==
    LET size  == IF fpOptions.hasSize THEN fpOptions.size
                 ELSE fpConfig.defaultSize
        color == IF fpOptions.hasColor THEN fpOptions.color
                 ELSE fpConfig.defaultColor
        fst   == fpConfig.folderStructure
    IN  (IF fst.groupBySize THEN <<T_sizePrefix \o NumToString(size)>>
         ELSE << >>)
        \o
        (IF fst.groupByColor /\ color # Empty /\ color # fpConfig.defaultColor
         THEN <<T_colorPrefix \o SanitizeString(color, fpConfig)>>
         ELSE << >>)
        \o
        (IF fst.groupByFormat THEN <<fpOptions.format>> ELSE << >>)

\* C10: with folderStructure.enabled true, the result is outputDir joined
\* with the resolved pattern, followed by 'size-<size>' iff groupBySize,
\* then 'color-<sanitized color>' iff groupByColor and the color is
\* non-empty and differs from config.defaultColor, then '<format>' iff
\* groupByFormat, and by no other segment.
C10_GroupSegmentsInOrder ==
    (fpPc = "returned" /\ fpConfig.folderStructure.enabled) =>
        PathSegments(fpResult)
          = PathSegments(PathJoin(fpConfig.outputDir,
                                  ResolveFolderPattern(fpConfig, fpCollection,
                                                       fpOptions)))
            \o ExpectedGroupSegments

\* A call with the three groupings on and a color other than the default.
C10_Witness ==
    /\ fpPc = "returned"
    /\ fpConfig.folderStructure.enabled
    /\ fpConfig.folderStructure.pattern = T_collection
    /\ fpConfig.fileNaming.sanitize
    /\ fpCollection = T_mdi
    /\ fpResult = <<"i", "c", "o", "n", "s", "/", "m", "d", "i", "/", "s", "i", "z", "e", "-", "1", "6", "/", "c", "o", "l", "o", "r", "-", "s", "k", "y", "-", "b", "l", "u", "e", "/", "p", "n", "g">>

\* C15: applyCase(text, 'original') returns text itself, for every text.
C15_OriginalIsPassthrough ==
    (txPc = "cased" /\ txCase = "original") => txCased = txInput

\* The characters sanitizeString leaves in a name.
SanitizedChars == WordChars \cup {"-", "."}

\* A sanitized text: only word characters, hyphens and dots, no two hyphens
\* in a row, no hyphen at either end.
IsSanitized(s) ==
    /\ \A k \in 1..Len(s) : s[k] \in SanitizedChars
    /\ \A k \in 1..(Len(s) - 1) : ~(s[k] = "-" /\ s[k + 1] = "-")
    /\ s # << >> => (s[1] # "-" /\ s[Len(s)] # "-")

\* C16: with sanitize enabled, sanitizeString applied to its own result
\* returns that result, and the result is a sanitized text.
C16_SanitizeIdempotent ==
    /\ (txPc \in {"sanitized", "resanitized"} /\ txEnabled)
          => IsSanitized(txSanitized)
    /\ (txPc = "resanitized" /\ txEnabled) => txAgain = txSanitized

\* A text that sanitizeString changes has been sanitized twice.
C16_Witness ==
    /\ txPc = "resanitized"
    /\ txEnabled
    /\ txInput = <<"B", " ", "*">>
    /\ txSanitized = <<"B">>
    /\ txAgain = <<"B">>

\* The file name with every occurrence of every placeholder replaced.
FileNameAllReplaced(cfg, collection, iconName, options) ==
    LET p1 == ReplaceAll(cfg.fileNaming.pattern, T_collection, collection)
        p2 == ReplaceAll(p1, T_icon, iconName)
        p3 == ReplaceAll(p2, T_size, NumToString(OptSize(cfg, options)))
        p4 == ReplaceAll(p3, T_color, ColorOrDefault(OptColor(cfg, options)))
        p5 == ReplaceAll(p4, T_format, options.format)
    IN ApplyCase(SanitizeString(p5, cfg), cfg.fileNaming.case)
       \o <<".">> \o options.format

\* The folder pattern with every occurrence of every placeholder replaced.
FolderPatternAllReplaced(cfg, collection, options) ==
    LET p1 == ReplaceAll(cfg.folderStructure.pattern, T_collection, collection)
        p2 == ReplaceAll(p1, T_size, NumToString(OptSize(cfg, options)))
        p3 == ReplaceAll(p2, T_color, ColorOrDefault(OptColor(cfg, options)))
    IN ReplaceAll(p3, T_format, options.format)

\* C13: generateFileName and generateFolderPath replace every occurrence of
\* a placeholder: the file name is the one with all occurrences replaced,
\* and the folder path starts with outputDir joined to the pattern with all
\* occurrences replaced, so a repeated placeholder leaves no remnant.
C13_EveryOccurrenceReplaced ==
    /\ fnPc = "named" =>
          fnFile = FileNameAllReplaced(fnConfig, fnCollection, fnIcon, fnOptions)
    /\ fnPc = "placed" =>
          fnFolder = PathJoin(PathJoin(fnConfig.outputDir,
                                FolderPatternAllReplaced(fnConfig, fnCollection,
                                                         fnOptions)),
                              fnOptions.format)

\* C11: for a fixed config and tuple every call of part_006's
\* generateFileName returns the same file name, whenever it is made.
C11_SameNameEveryCall ==
    \A i \in 1..Len(p6Names), j \in 1..Len(p6Names) : p6Names[i] = p6Names[j]

\* C17: with the color 'currentColor' or empty, the returned SVG holds the
\* body of the icon provider exactly as it was given.
C17_SentinelKeepsBody ==
    (svPc = "returned" /\ svColor \in {Empty, T_currentColor})
        => svResult = SvgOpen(svSize) \o svBody \o SvgClose

\* A body with a path that has no color attribute went through with the
\* sentinel color.
C17_Witness ==
    /\ svPc = "returned"
    /\ svColor = T_currentColor
    /\ svBody = E_path \o E_circle
    /\ svResult = SvgOpen(svSize) \o E_path \o E_circle \o SvgClose

\* A quoted fill= or stroke= attribute occurs in the body.
HasQuotedColorAttribute(s) ==
    \E name \in {T_fillEq, T_strokeEq}, q \in QuoteChars :
        Contains(s, name \o <<q>>)

PathLikeTags == {T_path} \cup SeqRange(shapeElements)

\* C19: for a body without a fill attribute, after applyColorToSvgBody every
\* opening tag of a path, circle, rect, ellipse, polygon or polyline element
\* carries fill="<color>".
C19_EveryShapeFilled ==
    (acPc = "returned" /\ ~Contains(ToLowerCase(acBody), T_fillEq)) =>
        \A tag \in PathLikeTags : \A i \in 1..Len(acResult) :
            MatchesAt(acResult, <<"<">> \o tag, i)
                => MatchesAt(acResult, TagWithFill(tag, acColor), i)

\* The writeFile calls that succeeded, and those that wrote to a path.
OkWrites == {k \in 1..Len(fsLog) : fsLog[k].ok}
OkWritesTo(path) == {k \in OkWrites : fsLog[k].path = path}

\* Variant a comes before variant b in the iteration order (collection,
\* icon, size, color, format).
VariantBefore(a, b) ==
    \/ a.icon < b.icon
    \/ a.icon = b.icon /\ a.size < b.size
    \/ a.icon = b.icon /\ a.size = b.size /\ a.color < b.color
    \/ a.icon = b.icon /\ a.size = b.size /\ a.color = b.color
          /\ a.format < b.format

\* C12: when the call has returned, each file holds the content of the last
\* variant in iteration order among those that wrote it successfully, and
\* every successful write is counted in processed.
C12_LastWriterWins ==
    fsPc = "done" =>
        /\ DOMAIN fsFiles = {fsLog[k].path : k \in OkWrites}
        /\ \A path \in DOMAIN fsFiles : \A k \in OkWritesTo(path) :
              (\A j \in OkWritesTo(path) :
                    j = k \/ VariantBefore(fsLog[j], fsLog[k]))
                  => fsFiles[path] = fsLog[k].content
        /\ fsProcessed = Cardinality(OkWrites)

\* Two variants of different sizes wrote the same path, and the file holds
\* what the later one wrote.
C12_Witness ==
    /\ fsPc = "done"
    /\ \E j \in OkWrites, k \in OkWrites :
          /\ VariantBefore(fsLog[j], fsLog[k])
          /\ fsLog[j].size # fsLog[k].size
          /\ fsLog[j].path = fsLog[k].path
          /\ fsLog[j].content # fsLog[k].content
          /\ \A n \in OkWritesTo(fsLog[k].path) :
                n = k \/ VariantBefore(fsLog[n], fsLog[k])
          /\ fsFiles[fsLog[k].path] = fsLog[k].content
    /\ fsProcessed >= 2

\* C14: a format 'jpg' of the config is used as 'jpeg' everywhere: no path
\* the run writes to holds 'jpg', as a folder or as a file extension.
C14_JpgUsedAsJpeg ==
    \A k \in 1..Len(fsLog) : ~Contains(fsLog[k].path, T_jpg)

\* The icons before position n that exist in the collection.
ExistingBefore(n) ==
    Cardinality({k \in 1..(n - 1) :
                    k <= Len(fsIcons) /\ ValidateIconOk(FsCollection, fsIcons[k])})

\* The (icon, size, color) combinations before the given one, and itself.
CombinationNumber(icon, size, color) ==
    ExistingBefore(icon) * Len(fsVariants.sizes) * Len(fsVariants.colors)
    + (size - 1) * Len(fsVariants.colors) + color

\* C20: generateSvg runs once for each (icon, size, color) combination,
\* before its first format, and never inside the format loop: the number of
\* renders is the number of combinations begun, and everything written for a
\* combination is made from the one SVG text of that combination's render.
C20_RenderOncePerCombination ==
    /\ fsPc \in {"icon", "done"} =>
          fsRenders = ExistingBefore(fsIi) * Len(fsVariants.sizes)
                                          * Len(fsVariants.colors)
    /\ fsPc = "render" =>
          fsRenders = CombinationNumber(fsIi, fsSi, fsColi) - 1
    /\ fsPc \in {"format", "return"} =>
          fsRenders = CombinationNumber(fsIi, fsSi, fsColi)
    /\ fsPc = "format" => fsSvgContent.render = fsRenders
    /\ \A k \in 1..Len(fsLog) :
          fsLog[k].content.svg =
              RenderedSvg(fsIcons[fsLog[k].icon],
                          fsVariants.sizes[fsLog[k].size],
                          fsVariants.colors[fsLog[k].color],
                          CombinationNumber(fsLog[k].icon, fsLog[k].size,
                                            fsLog[k].color))

\* Two formats of the second combination were written from its one render.
C20_Witness ==
    /\ fsPc = "return"
    /\ fsRenders = 2
    /\ \E j \in OkWrites, k \in OkWrites :
          /\ fsLog[j].format = 1 /\ fsLog[k].format = 2
          /\ fsLog[j].icon = fsLog[k].icon
          /\ fsLog[j].size = fsLog[k].size
          /\ fsLog[j].color = fsLog[k].color
          /\ fsLog[j].content.svg = fsLog[k].content.svg
          /\ fsLog[k].content.svg.render = 2


---------------------------------------------------------------------------
(* exportAll of src/icon-exporter-complete.js.                             *)

\* The exportIcon calls of the collection that have started and not settled.
InFlight == {j \in 1..Len(eaTask) : eaTask[j].status = "inflight"}

\* The number of the batch an icon belongs to, for batches of a given size.
BatchOf(j, size) == (j - 1) \div size

\* No exportIcon of a batch has started before every exportIcon of the
\* batches before it has settled.
BatchesInOrder(size) ==
    \A j, k \in 1..Len(eaTask) :
        (BatchOf(j, size) < BatchOf(k, size) /\ eaTask[k].status # "pending")
            => Settled(eaTask[j])

\* When the batch loop is over, exportIcon has been called for every icon
\* and every call has settled.
NoIconLeftOut ==
    (eaPc = "batch" /\ eaI > Len(eaIcons))
        => \A j \in 1..Len(eaTask) : Settled(eaTask[j])

TotalVariants(cfg) ==
    Len(cfg.collections) * Len(cfg.icons) * Len(IconVariants(cfg))

\* C28: after exportAll completes with every collection loaded,
\* stats.exported + stats.skipped + stats.errors is the number of variants
\* of the run and stats.skipped is the number of variants skipped as
\* existing.
C28_CountersAccountForEveryVariant ==
    (/\ eaPc = "resolved"
     /\ eaConfig.sizes # NotIterable
     /\ \A k \in 1..Len(eaConfig.collections) :
            eaConfig.collections[k] \in eaLoadable)
        => /\ eaStats.exported + eaStats.skipped + eaStats.errors
                = TotalVariants(eaConfig)
           /\ eaStats.skipped = eaSkipped

\* C29: when the promise of exportAll resolves, the write of
\* export-summary.json has finished or failed; it is not in flight.
C29_SummaryFileWrittenAtReturn ==
    eaPc = "resolved" => eaSummaryFile \in {"written", "failed"}


---------------------------------------------------------------------------
(* exportIcons of src/export-icons-3.js.                                   *)

\* C22: at any moment at most BATCH_SIZE processIcon calls of the
\* collection have started and not yet finished.
C22_AtMostBatchSizeStarted ==
    Cardinality({j \in 1..Len(e3Task) : e3Task[j] = "started"}) <= BATCH_SIZE


---------------------------------------------------------------------------
(* ExportWithVariants of the Go exporter.                                  *)

\* C23: ExportWithVariants always returns, whatever the number of variants
\* and of processVariant errors: the call that has started eventually
\* returns.
C23_AlwaysReturns == <>(goPc \in {"returned", "failed"})

\* The files a call attempts: icons x sizes x colors x formats over the
\* collections that load.
FilesAttempted ==
    Cardinality({k \in 1..Len(goConfig.Collections) :
                    goConfig.Collections[k] \in goLoadable})
        * Len(goConfig.IconsToExport) * Len(goSizes) * Len(goColors)
        * Len(goConfig.OutputFormats)

\* C24: the summary ExportWithVariants returns satisfies
\* Processed + Errors = number of files attempted.
C24_ProcessedPlusErrorsIsAttempted ==
    goPc = "returned" => goTotalProcessed + goTotalErrors = FilesAttempted


---------------------------------------------------------------------------
(* exportIcons of the sharp-based exporter of src/export-icons-31.js.     *)

\* C25: one call of exportIcons emits the summary exactly once, and only
\* after every collection of config.collections has been processed.
C25_SummaryOnceAtEnd ==
    /\ shPc = "returned" => Len(shSummaries) = 1
    /\ \A k \in 1..Len(shSummaries) :
           shSummaries[k].after = Len(shConfig.collections)


---------------------------------------------------------------------------
(* The first exporter of src/export-icons-31.js.                           *)

\* C26: a failure for one format of an icon counts as a single error, and
\* every configured format of the icon is attempted, failed formats before
\* it or not.
C26_SiblingFormatsStillAttempted ==
    \A k \in 1..Len(siLog) :
        siLog[k].generated
            => /\ siLog[k].attempted = siConfig.formats
               /\ siLog[k].errors = siLog[k].failed


---------------------------------------------------------------------------
(* createExporter of src/unnamed/part_005 with customSizes.                *)

\* A positive number, or an object with positive width and height.
IsPositiveSize(size) ==
    \/ size.kind = "number" /\ size.n > 0
    \/ size.kind = "object" /\ size.width > 0 /\ size.height > 0

\* C27: a customSizes array of positive numbers and of {width, height}
\* objects with positive dimensions, mixed or not, is accepted: the
\* constructor does not throw.
C27_MixedCustomSizesAccepted ==
    (/\ csPc # "input"
     /\ Len(csConfig.customSizes) > 0
     /\ \A k \in 1..Len(csConfig.customSizes) :
            IsPositiveSize(csConfig.customSizes[k]))
        => csPc = "constructed"


---------------------------------------------------------------------------
(* processCollectionWithVariants of src/export-icons-10-gemini.js.         *)

\* C30: with '{icon}' in the pattern, two distinct icon names of a
\* collection, exported at the same size and color, never resolve to the
\* same path, and every variant counted in processed has its own file.
C30_DistinctIconsDistinctPaths ==
    /\ \A j, k \in 1..Len(gmPaths) : j # k => gmPaths[j] # gmPaths[k]
    /\ gmPc = "done" => gmProcessed = Cardinality(gmFiles)

=============================================================================
